---------------------------- MODULE Spec2Model ----------------------------
(***************************************************************************)
(* Model of the connection-pooling clients of server/lib/src/net/client.rs *)
(*                                                                         *)
(* Part I   ReqResp::call: the request/response client with its pool of    *)
(*          (send, receive) stream pairs and its opened-streams budget.    *)
(* Part II  the stream clients (Client, ClientTimeout, ClientTlsTimeout,   *)
(*          ClientMultiConnection): stream opening, the Auth frame, the    *)
(*          pump task between the stream wrapper and the bridge channels.  *)
(* Part III ClientReqwest::call: the operators (one stream and one         *)
(*          multiplexer task each) and their request ids.                  *)
(* Part IV  the Msg codec of server/message/src/entity/msg.rs: as_bytes,   *)
(*          Msg::from, Type::from_i8 and Type::value.                      *)
(* Part V   ClientConfigBuilder: the setters and build().                  *)
(* Part VI  Drop of the clients: the close of the endpoint.                *)
(* Part VII the cluster wiring of server/message/src/cluster/client.rs:    *)
(*          the map from server ids to senders.                            *)
(***************************************************************************)
EXTENDS Integers, Sequences, FiniteSets, TLC

(***************************************************************************)
(* Bounds of the model.                                                    *)
(***************************************************************************)
\* number of concurrent ReqResp::call invocations (connection may die)
NCalls == 3
\* number of concurrent ReqResp::call invocations against an answering server
NLiveCalls == 4
\* largest max_bi_streams a ReqResp is created with
MaxK == 2

\* streams one client opens (new_net_streams calls, or pre-opened streams)
MaxStreams == 1
\* messages the application pushes on the outbound channel
MaxAppMsgs == 2
\* capacity of a channel in the model (the code's 64, scaled down)
ChanCap == 1

\* number of concurrent ClientReqwest::call invocations
NReqs == 2
\* frames the peer sends on the stream of one operator
MaxFrames == 1
\* longest payload of a Msg that is encoded
MaxPayload == 2
\* values a setter of the config builder is called with
NValues == 2
\* number of Client::new_connection calls of the cluster wiring
NConns == 3
\* number of cluster peers that answer an Auth frame
NPeers == 2

\* AtomicU16: opened_streams wraps modulo 2^16
U16 == 65536
\* length of an encoded Head
HEAD_LEN == 37

VARIABLES
    \* ---- Part I: ReqResp ------------------------------------------------
    max_bi_streams,   \* ClientConfig.max_bi_streams (K), capacity of the pool
    opened_streams,   \* ReqResp.opened_streams, the AtomicU16 budget
    pool,             \* the io_pair channel: sequence of pair (stream) ids
    conn_alive,       \* the QUIC connection is still up
    n_streams,        \* number of streams open_bi() has handed out
    dropped,          \* set of stream ids whose pair has been dropped
    req_wire,         \* stream id -> requests written and not yet answered
    resp_wire,        \* stream id -> responses written and not yet read
    rr_pc,            \* call -> position inside ReqResp::call
    rr_path,          \* call -> branch of call taken
    rr_pair,          \* call -> pair currently owned (0: none)
    rr_used,          \* call -> pair the call sent its request on (0: none)
    rr_sent,          \* call -> number of request frames written
    rr_rcvd,          \* call -> number of response frames read
    rr_res,           \* call -> frame returned by recv_msg (0: none)
    \* ---- Part II: stream clients ---------------------------------------
    kind,             \* which client object the behaviour is about
    opened_bi_streams_number, \* SubConnectionConfig field (multi clients)
    api_pc,           \* position inside the running API call
    api_op,           \* the API call being executed ("none": no call)
    api_res,          \* result of the last finished call
    cur,              \* stream the running call is setting up (0: none)
    n_cli_streams,    \* number of streams opened by the client
    cli_conn,         \* the client's connection is still up
    tls_conn,         \* ClientTlsTimeout.connection is still Some
    io_channel,       \* holder of the application channel ends
    st,               \* stream -> "none" | "open" | "closed"
    send_channel,     \* stream -> wrapper's outbound queue
    recv_channel,     \* stream -> wrapper's inbound queue
    wire,             \* stream -> frames written on the stream, in order
    replied,          \* stream -> the peer has sent its Auth reply
    pump,             \* stream -> state of the pump task
    pump_msg,         \* stream -> message the pump is forwarding
    bridge_out,       \* outbound bridge channel (io_sender -> bridge_receiver)
    bridge_in,        \* inbound bridge channel (bridge_sender -> io_receiver)
    app_sent,         \* number of messages the application has pushed
    app_rcvd,         \* messages the application has received, in order
    app_dropped,      \* channel ends the application has dropped
    timeout_channel,  \* stream -> timeout wrapper's notification queue
    bridge_timeout,   \* timeout channel (timeout_sender -> timeout_receiver)
    app_timeouts,     \* notifications the application has received
    peer_sent,        \* stream -> number of messages the peer has sent
    acked,            \* messages the peer has acknowledged
    timed_out,        \* messages a timeout wrapper has given up waiting for
    \* ---- Part III: ClientReqwest --------------------------------------
    rq_max_bi_streams, \* ClientConfig.max_bi_streams of the ClientReqwest
    connection,       \* ClientReqwest.connection is Some (run has returned)
    rq_alive,         \* the ClientReqwest object has not been dropped
    remaining_streams, \* ClientReqwest.remaining_streams, an AtomicU16
    operator_set,     \* ids (Operator.3) of the operators in the set
    op_req_id,        \* operator -> Operator.0, the next request id
    op_handed,        \* operator -> the ids fetch_add handed out, in order
    op_task,          \* operator -> state of its multiplexer task
    op_stream,        \* operator -> "none" | "open" | "error"
    op_inbox,         \* operator -> content of its one-shot request channel
    op_taken,         \* operator -> requests its task took and dropped
    op_frames,        \* operator -> frames of the peer its task discarded
    rq_pc,            \* call -> position inside ClientReqwest::call
    rq_remain,        \* call -> remain_streams, the value fetch_sub returned
    rq_op,            \* call -> operator picked (0: none)
    rq_id,            \* call -> req_id obtained from the operator
    \* ---- Part IV: Msg codec --------------------------------------------
    mc_pc,            \* how far the conversion has got
    mc_msg,           \* the Msg that is encoded
    mc_enc,           \* what Msg::as_bytes returned
    mc_buf,           \* the bytes handed to Msg::from
    mc_out,           \* what Msg::from did with mc_buf
    mc_i8,            \* the i8 handed to Type::from_i8
    mc_typ,           \* what Type::from_i8 returned
    mc_back,          \* Type::value of mc_typ
    mc_again,         \* Type::from_i8 of mc_back
    \* ---- Part V: ClientConfigBuilder -----------------------------------
    builder,          \* the fields of the ClientConfigBuilder
    cb_last,          \* field -> the last value a setter was called with
    cb_pc,            \* "open" | "built"
    cb_out,           \* what build() returned
    \* ---- Part VI: Drop ---------------------------------------------------
    endpoint,         \* client -> its endpoint field holds an endpoint
    ep_pc,            \* client -> "new" | "running" | "failed" | dropped
    closes,           \* client -> the endpoint.close calls, in order
    \* ---- Part VII: cluster wiring ----------------------------------------
    cluster_map,      \* server id -> sender (the call that created it)
    cm_pc,            \* call -> position of new_connection and its handler
    cm_peer,          \* call -> id of the ServerInfo in the Auth reply
    cm_handlers       \* calls a handler task was spawned for

rr_vars == <<max_bi_streams, opened_streams, pool, conn_alive, n_streams,
             dropped, req_wire, resp_wire, rr_pc, rr_path, rr_pair, rr_used,
             rr_sent, rr_rcvd, rr_res>>

\* channel-end ownership, the timeout channels and the peer's traffic
ext_vars == <<app_dropped, timeout_channel, bridge_timeout, app_timeouts,
              peer_sent, acked, timed_out>>

cli_vars == <<kind, opened_bi_streams_number, api_pc, api_op, api_res, cur,
              n_cli_streams, cli_conn, tls_conn, io_channel, st, send_channel,
              recv_channel, wire, replied, pump, pump_msg, bridge_out,
              bridge_in, app_sent, app_rcvd, ext_vars>>

rq_vars == <<rq_max_bi_streams, connection, rq_alive, remaining_streams,
             operator_set, op_req_id, op_handed, op_task, op_stream, op_inbox,
             op_taken, op_frames, rq_pc, rq_remain, rq_op, rq_id>>

mc_vars == <<mc_pc, mc_msg, mc_enc, mc_buf, mc_out, mc_i8, mc_typ, mc_back,
             mc_again>>

\* Parts III and IV, which the clients of Parts I and II never touch
cb_vars == <<builder, cb_last, cb_pc, cb_out>>

\* the parts that stand apart from the clients
ep_vars == <<endpoint, ep_pc, closes>>

cm_vars == <<cluster_map, cm_pc, cm_peer, cm_handlers>>

aux_vars == <<cb_vars, ep_vars, cm_vars>>

rest_vars == <<rq_vars, mc_vars, aux_vars>>

vars == <<rr_vars, cli_vars, rest_vars>>

Calls == 1..NCalls
LiveCalls == 1..NLiveCalls
AllCalls == Calls \cup LiveCalls
\* every call may open a stream once the budget has wrapped
StreamIds == AllCalls

Range(s) == {s[i] : i \in DOMAIN s}

\* the request TinyMsg of call c, and the answer of the server to a request
ReqOf(c) == c
RespOf(m) == m + 100

\* Part II at rest (a Client that was run and is left alone)
CliParked ==
    /\ kind = "Client"
    /\ opened_bi_streams_number = 0
    /\ api_pc = "idle"
    /\ api_op = "none"
    /\ api_res = "none"
    /\ cur = 0
    /\ n_cli_streams = 0
    /\ cli_conn = TRUE
    /\ tls_conn = TRUE
    /\ io_channel = "client"
    /\ st = [s \in 1..MaxStreams |-> "none"]
    /\ send_channel = [s \in 1..MaxStreams |-> <<>>]
    /\ recv_channel = [s \in 1..MaxStreams |-> <<>>]
    /\ wire = [s \in 1..MaxStreams |-> <<>>]
    /\ replied = [s \in 1..MaxStreams |-> FALSE]
    /\ pump = [s \in 1..MaxStreams |-> "none"]
    /\ pump_msg = [s \in 1..MaxStreams |-> 0]
    /\ bridge_out = <<>>
    /\ bridge_in = <<>>
    /\ app_sent = 0
    /\ app_rcvd = <<>>
    /\ app_dropped = {}
    /\ timeout_channel = [s \in 1..MaxStreams |-> <<>>]
    /\ bridge_timeout = <<>>
    /\ app_timeouts = <<>>
    /\ peer_sent = [s \in 1..MaxStreams |-> 0]
    /\ acked = {}
    /\ timed_out = {}

RqCalls == 1..NReqs

\* ClientReqwest::new: no connection, a budget of 0 and no operator
RqNew(ks) ==
    /\ rq_max_bi_streams \in ks
    /\ connection = FALSE
    /\ rq_alive = TRUE
    /\ remaining_streams = 0
    /\ operator_set = {}
    /\ op_req_id = <<>>
    /\ op_handed = <<>>
    /\ op_task = <<>>
    /\ op_stream = <<>>
    /\ op_inbox = <<>>
    /\ op_taken = <<>>
    /\ op_frames = <<>>
    /\ rq_pc = [c \in RqCalls |-> "idle"]
    /\ rq_remain = [c \in RqCalls |-> 0]
    /\ rq_op = [c \in RqCalls |-> 0]
    /\ rq_id = [c \in RqCalls |-> 0]

\* Part III at rest (a ClientReqwest that is created and left alone)
RqParked == RqNew({0})

\* Msg::default(): a Text message whose payload is "codewithbuff"
DefaultMsg ==
    [head |-> [length |-> 12, typ |-> "Text", sender |-> 1234,
               receiver |-> 4321, timestamp |-> 0, seq_num |-> 0,
               version |-> 1],
     payload |-> <<99, 111, 100, 101, 119, 105, 116, 104, 98, 117, 102, 102>>]

\* the codec before anything is encoded or converted
McStart(ms, is) ==
    /\ mc_pc = "idle"
    /\ mc_msg \in ms
    /\ mc_enc = <<>>
    /\ mc_buf = <<>>
    /\ mc_out = [res |-> "none"]
    /\ mc_i8 \in is
    /\ mc_typ = "NA"
    /\ mc_back = 0
    /\ mc_again = "NA"

\* Part IV at rest
McParked == McStart({DefaultMsg}, {0})

\* Parts III and IV are not running in the behaviours of Parts I and II
\* Option::None in a field of the builder
None == 0

\* ClientConfigBuilder::default(): every field is None
CbDefault ==
    /\ builder = [remote_address |-> None, ipv4_type |-> None,
                  domain |-> None, cert |-> None,
                  keep_alive_interval |-> None, max_bi_streams |-> None]
    /\ cb_last = builder
    /\ cb_pc = "open"
    /\ cb_out = [res |-> "none"]

\* the clients whose Drop closes an endpoint; all but the
\* ClientMultiConnection hold it in an Option
EpOwners == {"Client", "ClientTimeout", "ClientMultiConnection",
             "ClientReqResp"}
EpOptional == EpOwners \ {"ClientMultiConnection"}
EpDropped == {"dropped", "dropped_new"}

\* Client::new, ClientTimeout::new, ClientReqResp::new: endpoint: None;
\* ClientMultiConnection::new: the endpoint is created
EpNew ==
    /\ endpoint = [k \in EpOwners |-> k \notin EpOptional]
    /\ ep_pc = [k \in EpOwners |-> "new"]
    /\ closes = [k \in EpOwners |-> <<>>]

CmCalls == 1..NConns
PeerIds == 1..NPeers

\* the cluster connection map before any connection: empty
CmNew ==
    /\ cluster_map = <<>>
    /\ cm_pc = [c \in CmCalls |-> "idle"]
    /\ cm_peer = [c \in CmCalls |-> 0]
    /\ cm_handlers = {}

\* the parts that stand apart from the clients, at rest
AuxParked == CbDefault /\ EpNew /\ CmNew

RestParked == RqParked /\ McParked /\ AuxParked

(***************************************************************************)
(* Part I: ReqResp                                                         *)
(***************************************************************************)

\* ClientReqResp::new + run: pool bounded(max_bi_streams), empty;
\* opened_streams = max_bi_streams as u16
RRInit ==
    /\ max_bi_streams \in 1..MaxK
    /\ opened_streams = max_bi_streams % U16
    /\ pool = <<>>
    /\ conn_alive = TRUE
    /\ n_streams = 0
    /\ dropped = {}
    /\ req_wire = [s \in StreamIds |-> <<>>]
    /\ resp_wire = [s \in StreamIds |-> <<>>]
    /\ rr_pc = [c \in AllCalls |-> "idle"]
    /\ rr_path = [c \in AllCalls |-> "none"]
    /\ rr_pair = [c \in AllCalls |-> 0]
    /\ rr_used = [c \in AllCalls |-> 0]
    /\ rr_sent = [c \in AllCalls |-> 0]
    /\ rr_rcvd = [c \in AllCalls |-> 0]
    /\ rr_res = [c \in AllCalls |-> 0]

\* AtomicU16::fetch_sub(1): the new value, wrapping
FetchSub(v) == (v - 1) % U16

\* variant of PoolAfterTake: the pair is handed out and left in the channel
PoolAfterTake_Peek(p) == p

\* what try_recv / recv leave in the channel: the pair is moved out
PoolAfterTake(p) == Tail(p)

\* line 902: try_recv succeeds, the call owns the pair
TryRecvOk(c) ==
    /\ rr_pc[c] = "idle"
    /\ pool # <<>>
    /\ rr_pair' = [rr_pair EXCEPT ![c] = Head(pool)]
    /\ pool' = PoolAfterTake(pool)
    /\ rr_path' = [rr_path EXCEPT ![c] = "taken"]
    /\ rr_pc' = [rr_pc EXCEPT ![c] = "send"]
    /\ UNCHANGED <<cli_vars, rest_vars>>
    /\ UNCHANGED <<max_bi_streams, opened_streams, conn_alive, n_streams,
                   dropped, req_wire, resp_wire, rr_used, rr_sent, rr_rcvd,
                   rr_res>>

\* line 902/908: try_recv fails, the call goes to the else branch
TryRecvEmpty(c) ==
    /\ rr_pc[c] = "idle"
    /\ pool = <<>>
    /\ rr_pc' = [rr_pc EXCEPT ![c] = "budget"]
    /\ UNCHANGED <<cli_vars, rest_vars>>
    /\ UNCHANGED <<max_bi_streams, opened_streams, pool, conn_alive,
                   n_streams, dropped, req_wire, resp_wire, rr_path, rr_pair,
                   rr_used, rr_sent, rr_rcvd, rr_res>>

\* lines 909-913: fetch_sub(1, SeqCst) and the test of the previous value
BudgetFetchSub(c) ==
    /\ rr_pc[c] = "budget"
    /\ opened_streams' = FetchSub(opened_streams)
    /\ IF opened_streams > 0
       THEN /\ rr_pc' = [rr_pc EXCEPT ![c] = "open"]
            /\ rr_path' = [rr_path EXCEPT ![c] = "opened"]
       ELSE /\ rr_pc' = [rr_pc EXCEPT ![c] = "wait"]
            /\ rr_path' = [rr_path EXCEPT ![c] = "blocked"]
    /\ UNCHANGED <<cli_vars, rest_vars>>
    /\ UNCHANGED <<max_bi_streams, pool, conn_alive, n_streams, dropped,
                   req_wire, resp_wire, rr_pair, rr_used, rr_sent, rr_rcvd,
                   rr_res>>

\* line 914: connection.open_bi() hands out a new stream
OpenBiOk(c) ==
    /\ rr_pc[c] = "open"
    /\ conn_alive
    /\ n_streams' = n_streams + 1
    /\ rr_pair' = [rr_pair EXCEPT ![c] = n_streams + 1]
    /\ rr_pc' = [rr_pc EXCEPT ![c] = "send"]
    /\ UNCHANGED <<cli_vars, rest_vars>>
    /\ UNCHANGED <<max_bi_streams, opened_streams, pool, conn_alive, dropped,
                   req_wire, resp_wire, rr_path, rr_used, rr_sent, rr_rcvd,
                   rr_res>>

\* line 914: open_bi() fails on a dead connection, `?` returns the error
OpenBiErr(c) ==
    /\ rr_pc[c] = "open"
    /\ ~conn_alive
    /\ rr_pc' = [rr_pc EXCEPT ![c] = "err"]
    /\ UNCHANGED <<cli_vars, rest_vars>>
    /\ UNCHANGED <<max_bi_streams, opened_streams, pool, conn_alive,
                   n_streams, dropped, req_wire, resp_wire, rr_path, rr_pair,
                   rr_used, rr_sent, rr_rcvd, rr_res>>

\* line 920: io_pair_receiver.recv().await blocks until the pool holds a pair
PoolRecv(c) ==
    /\ rr_pc[c] = "wait"
    /\ pool # <<>>
    /\ rr_pair' = [rr_pair EXCEPT ![c] = Head(pool)]
    /\ pool' = PoolAfterTake(pool)
    /\ rr_pc' = [rr_pc EXCEPT ![c] = "send"]
    /\ UNCHANGED <<cli_vars, rest_vars>>
    /\ UNCHANGED <<max_bi_streams, opened_streams, conn_alive, n_streams,
                   dropped, req_wire, resp_wire, rr_path, rr_used, rr_sent,
                   rr_rcvd, rr_res>>

\* variant of CallRequests: the request is written twice
CallRequests_Twice(c) == <<ReqOf(c), ReqOf(c)>>

\* the request frames one call writes on its pair: send_msg is called once
CallRequests(c) == <<ReqOf(c)>>

\* lines 904 / 915 / 921: TinyMsgIOUtil::send_msg(msg, &mut send_stream)
SendMsgOk(c) ==
    /\ rr_pc[c] = "send"
    /\ conn_alive
    /\ req_wire' = [req_wire EXCEPT
                      ![rr_pair[c]] = @ \o CallRequests(c)]
    /\ rr_sent' = [rr_sent EXCEPT ![c] = @ + Len(CallRequests(c))]
    /\ rr_used' = [rr_used EXCEPT ![c] = rr_pair[c]]
    /\ rr_pc' = [rr_pc EXCEPT ![c] = "recv"]
    /\ UNCHANGED <<cli_vars, rest_vars>>
    /\ UNCHANGED <<max_bi_streams, opened_streams, pool, conn_alive,
                   n_streams, dropped, resp_wire, rr_path, rr_pair, rr_rcvd,
                   rr_res>>

\* variant of PoolAfterError: the failed call sends its pair back
PoolAfterError_PutBack(c) == Append(pool, rr_pair[c])

\* the pool after a call returned through `?`: unchanged, the pair (a
\* local of call) is dropped
PoolAfterError(c) == pool

\* the `?` after send_msg / recv_msg: the error is returned, the pair
\* (a local of call) is dropped
CallFails(c) ==
    /\ pool' = PoolAfterError(c)
    /\ dropped' = IF rr_pair[c] \in Range(pool') THEN dropped
                  ELSE dropped \cup {rr_pair[c]}
    /\ rr_used' = [rr_used EXCEPT ![c] = rr_pair[c]]
    /\ rr_pair' = [rr_pair EXCEPT ![c] = 0]
    /\ rr_pc' = [rr_pc EXCEPT ![c] = "err"]

\* lines 904 / 915 / 921: send_msg fails, the connection died
SendMsgErr(c) ==
    /\ rr_pc[c] = "send"
    /\ ~conn_alive
    /\ CallFails(c)
    /\ UNCHANGED <<cli_vars, rest_vars>>
    /\ UNCHANGED <<max_bi_streams, opened_streams, conn_alive, n_streams,
                   req_wire, resp_wire, rr_path, rr_sent, rr_rcvd, rr_res>>

\* lines 905 / 916 / 922: TinyMsgIOUtil::recv_msg(&mut recv_stream) reads
\* one response frame; lines 920-923: the blocked path returns Ok(res)
\* right away and its pair goes out of scope
RecvMsgOk(c) ==
    /\ rr_pc[c] = "recv"
    /\ resp_wire[rr_pair[c]] # <<>>
    /\ rr_res' = [rr_res EXCEPT ![c] = Head(resp_wire[rr_pair[c]])]
    /\ resp_wire' = [resp_wire EXCEPT ![rr_pair[c]] = Tail(@)]
    /\ rr_rcvd' = [rr_rcvd EXCEPT ![c] = @ + 1]
    /\ IF rr_path[c] = "blocked"
       THEN /\ rr_pc' = [rr_pc EXCEPT ![c] = "ok"]
            /\ rr_pair' = [rr_pair EXCEPT ![c] = 0]
            /\ dropped' = dropped \cup {rr_pair[c]}
       ELSE /\ rr_pc' = [rr_pc EXCEPT ![c] = "put"]
            /\ UNCHANGED <<rr_pair, dropped>>
    /\ UNCHANGED <<cli_vars, rest_vars>>
    /\ UNCHANGED <<max_bi_streams, opened_streams, pool, conn_alive,
                   n_streams, req_wire, rr_path, rr_used, rr_sent>>

\* lines 905 / 916 / 922: recv_msg fails, the connection died
RecvMsgErr(c) ==
    /\ rr_pc[c] = "recv"
    /\ ~conn_alive
    /\ CallFails(c)
    /\ UNCHANGED <<cli_vars, rest_vars>>
    /\ UNCHANGED <<max_bi_streams, opened_streams, conn_alive, n_streams,
                   req_wire, resp_wire, rr_path, rr_sent, rr_rcvd, rr_res>>

\* lines 906 / 917: io_pair_sender.send(pair).await, blocking while the
\* pool (capacity max_bi_streams) is full; then Ok(res)
PutBack(c) ==
    /\ rr_pc[c] = "put"
    /\ Len(pool) < max_bi_streams
    /\ pool' = Append(pool, rr_pair[c])
    /\ rr_pair' = [rr_pair EXCEPT ![c] = 0]
    /\ rr_pc' = [rr_pc EXCEPT ![c] = "ok"]
    /\ UNCHANGED <<cli_vars, rest_vars>>
    /\ UNCHANGED <<max_bi_streams, opened_streams, conn_alive, n_streams,
                   dropped, req_wire, resp_wire, rr_path, rr_used, rr_sent,
                   rr_rcvd, rr_res>>

\* the peer: answers a request on the stream it arrived on
ServerAnswer(s) ==
    /\ conn_alive
    /\ req_wire[s] # <<>>
    /\ s \notin dropped
    /\ req_wire' = [req_wire EXCEPT ![s] = Tail(@)]
    /\ resp_wire' = [resp_wire EXCEPT ![s] = Append(@, RespOf(Head(req_wire[s])))]
    /\ UNCHANGED <<cli_vars, rest_vars>>
    /\ UNCHANGED <<max_bi_streams, opened_streams, pool, conn_alive,
                   n_streams, dropped, rr_pc, rr_path, rr_pair, rr_used,
                   rr_sent, rr_rcvd, rr_res>>

\* the connection dies
ConnDies ==
    /\ conn_alive
    /\ conn_alive' = FALSE
    /\ UNCHANGED <<cli_vars, rest_vars>>
    /\ UNCHANGED <<max_bi_streams, opened_streams, pool, n_streams, dropped,
                   req_wire, resp_wire, rr_pc, rr_path, rr_pair, rr_used,
                   rr_sent, rr_rcvd, rr_res>>

\* one step of one call while the connection works
CallStep(c) ==
    \/ TryRecvOk(c)
    \/ TryRecvEmpty(c)
    \/ BudgetFetchSub(c)
    \/ OpenBiOk(c)
    \/ PoolRecv(c)
    \/ SendMsgOk(c)
    \/ RecvMsgOk(c)
    \/ PutBack(c)

\* ReqResp with a connection that may die
RRNext ==
    \/ \E c \in Calls : CallStep(c)
    \/ \E c \in Calls : OpenBiErr(c)
    \/ \E c \in Calls : SendMsgErr(c)
    \/ \E c \in Calls : RecvMsgErr(c)
    \/ \E s \in StreamIds : ServerAnswer(s)
    \/ ConnDies

InitRR == RRInit /\ CliParked /\ RestParked

SpecRR == InitRR /\ [][RRNext]_vars

\* ReqResp with a server that answers every request: the connection stays
\* up; every started call and the server keep being scheduled
RRLiveNext ==
    \/ \E c \in LiveCalls : CallStep(c)
    \/ \E s \in StreamIds : ServerAnswer(s)

\* a call that has been invoked keeps being polled by the runtime
CallRuns(c) == rr_pc[c] # "idle" /\ CallStep(c)

SpecRRLive ==
    /\ InitRR
    /\ [][RRLiveNext]_vars
    /\ \A c \in LiveCalls : WF_vars(CallRuns(c))
    /\ \A s \in StreamIds : WF_vars(ServerAnswer(s))


(***************************************************************************)
(* Part II: the stream clients                                             *)
(***************************************************************************)

Kinds == {"Client", "ClientTimeout", "ClientTlsTimeout",
          "SubConnection", "SubConnectionTimeout"}
IsMulti(k) == k \in {"SubConnection", "SubConnectionTimeout"}
IsTimeoutKind(k) ==
    k \in {"ClientTimeout", "ClientTlsTimeout", "SubConnectionTimeout"}
CliStreams == 1..MaxStreams
\* a sub-connection is studied with one pre-opened stream more
MaxSubStreams == MaxStreams + 1
AllStreams == 1..MaxSubStreams

\* frames: the Auth message, the peer's Auth reply, application messages 1..
AuthMsg == 0
AuthReply == -1

\* state after Client::run / ClientTimeout::new + run / ClientTlsTimeout::new
\* + run / ClientMultiConnection::new: connected, channels made, no stream;
\* the client is one of ks, a sub-connection is configured with one of ns
\* pre-opened streams
CliStart(ks, ns) ==
    /\ kind \in ks
    /\ opened_bi_streams_number \in (IF IsMulti(kind) THEN ns ELSE {0})
    /\ api_pc = "idle"
    /\ api_op = "none"
    /\ api_res = "none"
    /\ cur = 0
    /\ n_cli_streams = 0
    /\ cli_conn = TRUE
    /\ tls_conn = TRUE
    /\ io_channel = "client"
    /\ st = [s \in AllStreams |-> "none"]
    /\ send_channel = [s \in AllStreams |-> <<>>]
    /\ recv_channel = [s \in AllStreams |-> <<>>]
    /\ wire = [s \in AllStreams |-> <<>>]
    /\ replied = [s \in AllStreams |-> FALSE]
    /\ pump = [s \in AllStreams |-> "none"]
    /\ pump_msg = [s \in AllStreams |-> 0]
    /\ bridge_out = <<>>
    /\ bridge_in = <<>>
    /\ app_sent = 0
    /\ app_rcvd = <<>>
    /\ app_dropped = {}
    /\ timeout_channel = [s \in AllStreams |-> <<>>]
    /\ bridge_timeout = <<>>
    /\ app_timeouts = <<>>
    /\ peer_sent = [s \in AllStreams |-> 0]
    /\ acked = {}
    /\ timed_out = {}

CliInit == CliStart(Kinds, 0..MaxStreams)

\* the API call returns r
Return(r) ==
    /\ api_pc' = "idle"
    /\ api_res' = r

\* new_net_streams / io_channel_token / io_channel_server_info is called
\* (io_channel_server_info differs from io_channel_token in the payload only)
StartNetStreams(op) ==
    /\ ~IsMulti(kind)
    /\ api_pc = "idle"
    /\ api_res # "panic"
    /\ \/ n_cli_streams < MaxStreams
       \/ kind = "ClientTlsTimeout" /\ n_cli_streams < MaxSubStreams
    /\ api_op' = op
    /\ api_pc' = "open"
    /\ api_res' = "running"
    /\ UNCHANGED <<rest_vars, rr_vars, ext_vars>>
    /\ UNCHANGED <<kind, opened_bi_streams_number, cur, n_cli_streams,
                   cli_conn, tls_conn, io_channel, st, send_channel,
                   recv_channel, wire, replied, pump, pump_msg, bridge_out,
                   bridge_in, app_sent, app_rcvd>>

\* new_connection / new_timeout_connection is called; with
\* opened_bi_streams_number = 0 the loop body never runs
StartConnection ==
    /\ IsMulti(kind)
    /\ api_pc = "idle"
    /\ api_op = "none"
    /\ api_op' = IF kind = "SubConnection" THEN "new_connection"
                 ELSE "new_timeout_connection"
    /\ IF opened_bi_streams_number > 0
       THEN api_pc' = "open" /\ api_res' = "running"
       ELSE Return("ok")
    /\ UNCHANGED <<rest_vars, rr_vars, ext_vars>>
    /\ UNCHANGED <<kind, opened_bi_streams_number, cur, n_cli_streams,
                   cli_conn, tls_conn, io_channel, st, send_channel,
                   recv_channel, wire, replied, pump, pump_msg, bridge_out,
                   bridge_in, app_sent, app_rcvd>>

\* variant of SetupOrder: the pump is spawned before the Auth is enqueued
SetupOrder_SpawnFirst == <<"spawn", "auth">>

\* the steps between opening a stream and finishing its set-up, in the
\* order of the code: enqueue the Auth message, then spawn the pump
SetupOrder == <<"auth", "spawn">>

StepAfter(x) == IF x = SetupOrder[1] THEN SetupOrder[2] ELSE "ready"

\* the raw write of new_timeout_connection comes before the wrapper exists
StepAfterOpen == IF kind = "SubConnectionTimeout" THEN "raw" ELSE SetupOrder[1]

\* variant of TlsConnAfterSplit: the connection is borrowed, not taken
TlsConnAfterSplit_Kept == tls_conn

\* split(self.connection.take().unwrap()): self.connection is None afterwards
TlsConnAfterSplit == FALSE

\* connection.open_bi().await succeeds (ClientTlsTimeout: the one
\* connection is taken and split)
OpenBiStream ==
    /\ api_pc = "open"
    /\ cli_conn
    /\ kind = "ClientTlsTimeout" => tls_conn
    /\ tls_conn' = IF kind = "ClientTlsTimeout" THEN TlsConnAfterSplit
                   ELSE tls_conn
    /\ n_cli_streams' = n_cli_streams + 1
    /\ cur' = n_cli_streams + 1
    /\ st' = [st EXCEPT ![n_cli_streams + 1] = "open"]
    /\ api_pc' = StepAfterOpen
    /\ UNCHANGED <<rest_vars, rr_vars, ext_vars>>
    /\ UNCHANGED <<kind, opened_bi_streams_number, api_op, api_res, cli_conn,
                   io_channel, send_channel, recv_channel, wire, replied,
                   pump, pump_msg, bridge_out, bridge_in, app_sent, app_rcvd>>

\* open_bi().await? fails: the call returns the error
OpenBiStreamErr ==
    /\ api_pc = "open"
    /\ kind # "ClientTlsTimeout"
    /\ ~cli_conn
    /\ Return("err")
    /\ UNCHANGED <<rest_vars, rr_vars, ext_vars>>
    /\ UNCHANGED <<kind, opened_bi_streams_number, api_op, cur,
                   n_cli_streams, cli_conn, tls_conn, io_channel, st,
                   send_channel, recv_channel, wire, replied, pump, pump_msg,
                   bridge_out, bridge_in, app_sent, app_rcvd>>

\* ClientTlsTimeout::new_net_streams a second time:
\* self.connection.take().unwrap() on None
TlsConnectionGone ==
    /\ api_pc = "open"
    /\ kind = "ClientTlsTimeout"
    /\ ~tls_conn
    /\ Return("panic")
    /\ UNCHANGED <<rest_vars, rr_vars, ext_vars>>
    /\ UNCHANGED <<kind, opened_bi_streams_number, api_op, cur,
                   n_cli_streams, cli_conn, tls_conn, io_channel, st,
                   send_channel, recv_channel, wire, replied, pump, pump_msg,
                   bridge_out, bridge_in, app_sent, app_rcvd>>

\* new_timeout_connection line 577: io_streams.0.write_all(auth_msg).await?
RawWriteAuth ==
    /\ api_pc = "raw"
    /\ st[cur] = "open"
    /\ wire' = [wire EXCEPT ![cur] = Append(@, AuthMsg)]
    /\ api_pc' = SetupOrder[1]
    /\ UNCHANGED <<rest_vars, rr_vars, ext_vars>>
    /\ UNCHANGED <<kind, opened_bi_streams_number, api_op, api_res, cur,
                   n_cli_streams, cli_conn, tls_conn, io_channel, st,
                   send_channel, recv_channel, replied, pump, pump_msg,
                   bridge_out, bridge_in, app_sent, app_rcvd>>

\* line 577: the raw write fails on a closed stream
RawWriteAuthErr ==
    /\ api_pc = "raw"
    /\ st[cur] = "closed"
    /\ Return("err")
    /\ UNCHANGED <<rest_vars, rr_vars, ext_vars>>
    /\ UNCHANGED <<kind, opened_bi_streams_number, api_op, cur,
                   n_cli_streams, cli_conn, tls_conn, io_channel, st,
                   send_channel, recv_channel, wire, replied, pump, pump_msg,
                   bridge_out, bridge_in, app_sent, app_rcvd>>

\* send_channel.send(auth_msg).await succeeds
EnqueueAuth ==
    /\ api_pc = "auth"
    /\ st[cur] = "open"
    /\ Len(send_channel[cur]) < ChanCap
    /\ send_channel' = [send_channel EXCEPT ![cur] = Append(@, AuthMsg)]
    /\ api_pc' = StepAfter("auth")
    /\ UNCHANGED <<rest_vars, rr_vars, ext_vars>>
    /\ UNCHANGED <<kind, opened_bi_streams_number, api_op, api_res, cur,
                   n_cli_streams, cli_conn, tls_conn, io_channel, st,
                   recv_channel, wire, replied, pump, pump_msg, bridge_out,
                   bridge_in, app_sent, app_rcvd>>

\* variant of IoChannelAfterAuthErr: io_channel_token takes io_channel before
\* it looks at the result of new_net_streams
IoChannelAfterAuthErr_Taken(op) ==
    IF op = "io_channel_token" THEN "app" ELSE io_channel

\* `self.new_net_streams(..).await?` returns the error before
\* `self.io_channel()` is reached: io_channel stays where it is
IoChannelAfterAuthErr(op) == io_channel

\* send_channel.send(auth_msg).await.is_err(): return Err, no pump
EnqueueAuthErr ==
    /\ api_pc = "auth"
    /\ st[cur] = "closed"
    /\ Return("err")
    /\ io_channel' = IoChannelAfterAuthErr(api_op)
    /\ UNCHANGED <<rest_vars, rr_vars, ext_vars>>
    /\ UNCHANGED <<kind, opened_bi_streams_number, api_op, cur,
                   n_cli_streams, cli_conn, tls_conn, st,
                   send_channel, recv_channel, wire, replied, pump, pump_msg,
                   bridge_out, bridge_in, app_sent, app_rcvd>>

\* tokio::spawn of the pump task of the stream
SpawnPump ==
    /\ api_pc = "spawn"
    /\ pump' = [pump EXCEPT ![cur] = "select"]
    /\ api_pc' = StepAfter("spawn")
    /\ UNCHANGED <<rest_vars, rr_vars, ext_vars>>
    /\ UNCHANGED <<kind, opened_bi_streams_number, api_op, api_res, cur,
                   n_cli_streams, cli_conn, tls_conn, io_channel, st,
                   send_channel, recv_channel, wire, replied, pump_msg,
                   bridge_out, bridge_in, app_sent, app_rcvd>>

\* the stream is set up: new_net_streams returns Ok(stream_id);
\* io_channel_token goes on to take io_channel (unwrap of None panics);
\* new_connection / new_timeout_connection loop or return the SubConnection
StreamReady ==
    /\ api_pc = "ready"
    /\ CASE api_op = "new_net_streams" ->
              Return("ok") /\ UNCHANGED io_channel
         [] api_op = "io_channel_token" ->
              IF io_channel = "client"
              THEN Return("ok") /\ io_channel' = "app"
              ELSE Return("panic") /\ UNCHANGED io_channel
         [] OTHER ->
              /\ UNCHANGED io_channel
              /\ IF n_cli_streams < opened_bi_streams_number
                 THEN api_pc' = "open" /\ UNCHANGED api_res
                 ELSE Return("ok")
    /\ UNCHANGED <<rest_vars, rr_vars, ext_vars>>
    /\ UNCHANGED <<kind, opened_bi_streams_number, api_op, cur,
                   n_cli_streams, cli_conn, tls_conn, st, send_channel,
                   recv_channel, wire, replied, pump, pump_msg, bridge_out,
                   bridge_in, app_sent, app_rcvd>>

\* Client::io_channel / ClientTimeout::io_channel / operation_channel:
\* self.io_channel.take().unwrap()
TakeIoChannel ==
    /\ api_pc = "idle"
    /\ api_res # "panic"
    /\ kind # "ClientTlsTimeout"
    /\ IsMulti(kind) => api_res = "ok"
    /\ IF io_channel = "client"
       THEN io_channel' = "app" /\ UNCHANGED api_res
       ELSE api_res' = "panic" /\ UNCHANGED io_channel
    /\ UNCHANGED <<rest_vars, rr_vars, ext_vars>>
    /\ UNCHANGED <<kind, opened_bi_streams_number, api_pc, api_op, cur,
                   n_cli_streams, cli_conn, tls_conn, st, send_channel,
                   recv_channel, wire, replied, pump, pump_msg, bridge_out,
                   bridge_in, app_sent, app_rcvd>>

\* ---- the pump task of stream s (the loop { select! { .. } } spawned above)

\* variant of HasRoom: a send completes whatever the channel holds
HasRoom_Always(q) == TRUE

\* send().await on a bridge or timeout channel (tokio mpsc channel(64),
\* async_channel bounded(64)) completes only while the queue has room
HasRoom(q) == Len(q) < ChanCap

\* positions of a pump task that has not ended
PumpRunning == {"select", "fwd_out", "fwd_in", "fwd_to"}

\* new_connection / new_timeout_connection has returned an error: io_sender,
\* io_receiver and the timeout receiver, locals of the call that were to go
\* into the SubConnection, were dropped with its frame
FrameDropped == IsMulti(kind) /\ api_pc = "idle" /\ api_res = "err"

\* variant of Dropped: only the application can drop an end
Dropped_ByApp(e) == e \in app_dropped

\* the end e that faces the pumps is gone: the application dropped it, or
\* it never left the failed call
Dropped(e) == e \in app_dropped \/ FrameDropped

\* variant of BridgeHeld: the object keeps the bridge ends of its pumps, as
\* Client does
BridgeHeld_InObject == TRUE

\* somebody other than the application holds an end of every bridge and
\* timeout channel: Client, ClientTimeout and ClientTlsTimeout keep
\* bridge_channel and timeout_sender in the object; new_connection and
\* new_timeout_connection hold them in locals until they return; every
\* running pump holds clones
BridgeHeld ==
    \/ ~IsMulti(kind)
    \/ api_pc # "idle"
    \/ \E s \in AllStreams : pump[s] \in PumpRunning

\* the variables of the API calls
api_vars == <<kind, opened_bi_streams_number, api_pc, api_op, api_res, cur,
              n_cli_streams, cli_conn, tls_conn, io_channel>>

\* variant of AfterRecv: recv() leaves the message in the channel
AfterRecv_Peek(q) == q

\* recv() on a channel removes the oldest queued message
AfterRecv(q) == Tail(q)

\* variant of PumpTakeOut: the outbound branch runs beside an inbound
\* delivery that has not completed
PumpTakeOut_Beside(s) ==
    /\ pump[s] \in {"select", "fwd_in"}
    /\ bridge_out # <<>>
    /\ bridge_out' = Tail(bridge_out)
    /\ IF pump[s] = "select"
       THEN /\ pump_msg' = [pump_msg EXCEPT ![s] = Head(bridge_out)]
            /\ pump' = [pump EXCEPT ![s] = "fwd_out"]
            /\ UNCHANGED send_channel
       ELSE /\ Len(send_channel[s]) < ChanCap
            /\ send_channel' =
                   [send_channel EXCEPT ![s] = Append(@, Head(bridge_out))]
            /\ UNCHANGED <<pump, pump_msg>>
    /\ UNCHANGED <<rest_vars, rr_vars, ext_vars>>
    /\ UNCHANGED <<kind, opened_bi_streams_number, api_pc, api_op, api_res,
                   cur, n_cli_streams, cli_conn, tls_conn, io_channel, st,
                   recv_channel, wire, replied, bridge_in, app_sent,
                   app_rcvd>>

\* select!: bridge_channel.1.recv() yields Ok(msg)
PumpTakeOut(s) ==
    /\ pump[s] = "select"
    /\ bridge_out # <<>>
    /\ pump_msg' = [pump_msg EXCEPT ![s] = Head(bridge_out)]
    /\ bridge_out' = AfterRecv(bridge_out)
    /\ pump' = [pump EXCEPT ![s] = "fwd_out"]
    /\ UNCHANGED <<rest_vars, rr_vars, ext_vars>>
    /\ UNCHANGED <<kind, opened_bi_streams_number, api_pc, api_op, api_res,
                   cur, n_cli_streams, cli_conn, tls_conn, io_channel, st,
                   send_channel, recv_channel, wire, replied, bridge_in,
                   app_sent, app_rcvd>>

\* variant of SendTargets: the message goes to every stream that has a pump
SendTargets_All(s) == {t \in AllStreams : pump[t] # "none"}

\* the pump of stream s owns the send_channel of its own wrapper only
SendTargets(s) == {s}

\* send_channel.send(msg).await succeeds: back to select!
PumpSendOut(s) ==
    /\ pump[s] = "fwd_out"
    /\ st[s] = "open"
    /\ Len(send_channel[s]) < ChanCap
    /\ send_channel' = [t \in AllStreams |->
                           IF t \in SendTargets(s)
                           THEN Append(send_channel[t], pump_msg[s])
                           ELSE send_channel[t]]
    /\ pump_msg' = [pump_msg EXCEPT ![s] = 0]
    /\ pump' = [pump EXCEPT ![s] = "select"]
    /\ UNCHANGED <<rest_vars, rr_vars, ext_vars>>
    /\ UNCHANGED <<kind, opened_bi_streams_number, api_pc, api_op, api_res,
                   cur, n_cli_streams, cli_conn, tls_conn, io_channel, st,
                   recv_channel, wire, replied, bridge_out, bridge_in,
                   app_sent, app_rcvd>>

\* send_channel.send(msg).await.is_err(): break; the task ends and drops
\* its channel ends
PumpSendOutErr(s) ==
    /\ pump[s] = "fwd_out"
    /\ st[s] = "closed"
    /\ pump_msg' = [pump_msg EXCEPT ![s] = 0]
    /\ pump' = [pump EXCEPT ![s] = "done"]
    /\ UNCHANGED <<rest_vars, rr_vars, ext_vars>>
    /\ UNCHANGED <<kind, opened_bi_streams_number, api_pc, api_op, api_res,
                   cur, n_cli_streams, cli_conn, tls_conn, io_channel, st,
                   send_channel, recv_channel, wire, replied, bridge_out,
                   bridge_in, app_sent, app_rcvd>>

\* select!: recv_channel.recv() yields Some(msg)
PumpTakeIn(s) ==
    /\ pump[s] = "select"
    /\ recv_channel[s] # <<>>
    /\ pump_msg' = [pump_msg EXCEPT ![s] = Head(recv_channel[s])]
    /\ recv_channel' = [recv_channel EXCEPT ![s] = AfterRecv(@)]
    /\ pump' = [pump EXCEPT ![s] = "fwd_in"]
    /\ UNCHANGED <<rest_vars, rr_vars, ext_vars>>
    /\ UNCHANGED <<kind, opened_bi_streams_number, api_pc, api_op, api_res,
                   cur, n_cli_streams, cli_conn, tls_conn, io_channel, st,
                   send_channel, wire, replied, bridge_out, bridge_in,
                   app_sent, app_rcvd>>

\* bridge_channel.0.send(msg).await succeeds: back to select!
PumpDeliverIn(s) ==
    /\ pump[s] = "fwd_in"
    /\ ~Dropped("in")
    /\ HasRoom(bridge_in)
    /\ bridge_in' = Append(bridge_in, pump_msg[s])
    /\ pump_msg' = [pump_msg EXCEPT ![s] = 0]
    /\ pump' = [pump EXCEPT ![s] = "select"]
    /\ UNCHANGED <<rest_vars, rr_vars, ext_vars>>
    /\ UNCHANGED <<kind, opened_bi_streams_number, api_pc, api_op, api_res,
                   cur, n_cli_streams, cli_conn, tls_conn, io_channel, st,
                   send_channel, recv_channel, wire, replied, bridge_out,
                   app_sent, app_rcvd>>

\* select!: recv_channel.recv() yields None (the wrapper's reader ended):
\* break
PumpRecvNone(s) ==
    /\ pump[s] = "select"
    /\ recv_channel[s] = <<>>
    /\ st[s] = "closed"
    /\ pump' = [pump EXCEPT ![s] = "done"]
    /\ UNCHANGED <<rest_vars, rr_vars, ext_vars>>
    /\ UNCHANGED <<kind, opened_bi_streams_number, api_pc, api_op, api_res,
                   cur, n_cli_streams, cli_conn, tls_conn, io_channel, st,
                   send_channel, recv_channel, wire, replied, pump_msg,
                   bridge_out, bridge_in, app_sent, app_rcvd>>

\* variant of OutRecvErr: recv() on the outbound bridge channel never fails
OutRecvErr_Never == FALSE

\* bridge_channel.1.recv() yields Err: the channel is closed (io_sender, its
\* only sender, was dropped by the application or with the failed call) and
\* drained
OutRecvErr == Dropped("out") /\ bridge_out = <<>>

\* select!: bridge_channel.1.recv() yields Err: break
PumpOutClosed(s) ==
    /\ pump[s] = "select"
    /\ OutRecvErr
    /\ pump' = [pump EXCEPT ![s] = "done"]
    /\ UNCHANGED <<rest_vars, rr_vars, api_vars, ext_vars>>
    /\ UNCHANGED <<st, send_channel, recv_channel, wire, replied, pump_msg,
                   bridge_out, bridge_in, app_sent, app_rcvd>>

\* bridge_channel.0.send(msg).await.is_err() (the application has dropped
\* the receiver): break
PumpDeliverInErr(s) ==
    /\ pump[s] = "fwd_in"
    /\ Dropped("in")
    /\ pump_msg' = [pump_msg EXCEPT ![s] = 0]
    /\ pump' = [pump EXCEPT ![s] = "done"]
    /\ UNCHANGED <<rest_vars, rr_vars, api_vars, ext_vars>>
    /\ UNCHANGED <<st, send_channel, recv_channel, wire, replied, bridge_out,
                   bridge_in, app_sent, app_rcvd>>

\* select!: timeout_channel.recv() yields Some(msg)
PumpTakeTimeout(s) ==
    /\ pump[s] = "select"
    /\ timeout_channel[s] # <<>>
    /\ pump_msg' = [pump_msg EXCEPT ![s] = Head(timeout_channel[s])]
    /\ timeout_channel' = [timeout_channel EXCEPT ![s] = AfterRecv(@)]
    /\ pump' = [pump EXCEPT ![s] = "fwd_to"]
    /\ UNCHANGED <<rest_vars, rr_vars, api_vars>>
    /\ UNCHANGED <<st, send_channel, recv_channel, wire, replied, bridge_out,
                   bridge_in, app_sent, app_rcvd, app_dropped, bridge_timeout,
                   app_timeouts, peer_sent, acked, timed_out>>

\* variant of SendChannelAfterTimeout: the pump enqueues the timed-out
\* message on the stream again
SendChannelAfterTimeout_Resend(s) ==
    [send_channel EXCEPT ![s] = Append(@, pump_msg[s])]

\* the third select! branch sends on timeout_sender only; the wrapper's
\* send channel is left alone
SendChannelAfterTimeout(s) == send_channel

\* variant of TimeoutAfterDeliver: the notification is delivered twice
TimeoutAfterDeliver_Twice(s) ==
    Append(Append(bridge_timeout, pump_msg[s]), pump_msg[s])

\* timeout_sender.send(msg).await: one send for one notification
TimeoutAfterDeliver(s) == Append(bridge_timeout, pump_msg[s])

\* timeout_sender.send(msg).await succeeds: back to select!
PumpDeliverTimeout(s) ==
    /\ pump[s] = "fwd_to"
    /\ ~Dropped("timeout")
    /\ HasRoom(bridge_timeout)
    /\ bridge_timeout' = TimeoutAfterDeliver(s)
    /\ send_channel' = SendChannelAfterTimeout(s)
    /\ pump_msg' = [pump_msg EXCEPT ![s] = 0]
    /\ pump' = [pump EXCEPT ![s] = "select"]
    /\ UNCHANGED <<rest_vars, rr_vars, api_vars>>
    /\ UNCHANGED <<st, recv_channel, wire, replied, bridge_out, bridge_in,
                   app_sent, app_rcvd, app_dropped, timeout_channel,
                   app_timeouts, peer_sent, acked, timed_out>>

\* timeout_sender.send(msg).await.is_err() (the application has dropped the
\* timeout receiver): break
PumpDeliverTimeoutErr(s) ==
    /\ pump[s] = "fwd_to"
    /\ Dropped("timeout")
    /\ pump_msg' = [pump_msg EXCEPT ![s] = 0]
    /\ pump' = [pump EXCEPT ![s] = "done"]
    /\ UNCHANGED <<rest_vars, rr_vars, api_vars, ext_vars>>
    /\ UNCHANGED <<st, send_channel, recv_channel, wire, replied, bridge_out,
                   bridge_in, app_sent, app_rcvd>>

\* select!: timeout_channel.recv() yields None (the wrapper's timer task
\* has ended): break
PumpTimeoutNone(s) ==
    /\ pump[s] = "select"
    /\ IsTimeoutKind(kind)
    /\ timeout_channel[s] = <<>>
    /\ st[s] = "closed"
    /\ pump' = [pump EXCEPT ![s] = "done"]
    /\ UNCHANGED <<rest_vars, rr_vars, api_vars, ext_vars>>
    /\ UNCHANGED <<st, send_channel, recv_channel, wire, replied, pump_msg,
                   bridge_out, bridge_in, app_sent, app_rcvd>>

\* ---- the stream wrapper (MsgIOWrapper and its variants) and the peer

\* the wrapper's writer task pops send_channel and writes the frame
WrapperWrite(s) ==
    /\ st[s] = "open"
    /\ send_channel[s] # <<>>
    /\ wire' = [wire EXCEPT ![s] = Append(@, Head(send_channel[s]))]
    /\ send_channel' = [send_channel EXCEPT ![s] = Tail(@)]
    /\ UNCHANGED <<rest_vars, rr_vars, ext_vars>>
    /\ UNCHANGED <<kind, opened_bi_streams_number, api_pc, api_op, api_res,
                   cur, n_cli_streams, cli_conn, tls_conn, io_channel, st,
                   recv_channel, replied, pump, pump_msg, bridge_out,
                   bridge_in, app_sent, app_rcvd>>

\* the peer accepts the Auth frame and replies with its own Auth message;
\* the wrapper's reader task decodes it into recv_channel
PeerAuthReply(s) ==
    /\ st[s] = "open"
    /\ wire[s] # <<>>
    /\ Head(wire[s]) = AuthMsg
    /\ ~replied[s]
    /\ Len(recv_channel[s]) < ChanCap
    /\ recv_channel' = [recv_channel EXCEPT ![s] = Append(@, AuthReply)]
    /\ replied' = [replied EXCEPT ![s] = TRUE]
    /\ UNCHANGED <<rest_vars, rr_vars, ext_vars>>
    /\ UNCHANGED <<kind, opened_bi_streams_number, api_pc, api_op, api_res,
                   cur, n_cli_streams, cli_conn, tls_conn, io_channel, st,
                   send_channel, wire, pump, pump_msg, bridge_out, bridge_in,
                   app_sent, app_rcvd>>

\* the peer closes stream s (it rejects the Auth frame, or it goes away)
PeerClosesStream(s) ==
    /\ st[s] = "open"
    /\ st' = [st EXCEPT ![s] = "closed"]
    /\ UNCHANGED <<rest_vars, rr_vars, ext_vars>>
    /\ UNCHANGED <<kind, opened_bi_streams_number, api_pc, api_op, api_res,
                   cur, n_cli_streams, cli_conn, tls_conn, io_channel,
                   send_channel, recv_channel, wire, replied, pump, pump_msg,
                   bridge_out, bridge_in, app_sent, app_rcvd>>

\* the connection is lost: every stream of it is closed
CliConnDies ==
    /\ cli_conn
    /\ cli_conn' = FALSE
    /\ st' = [s \in AllStreams |-> IF st[s] = "open" THEN "closed" ELSE st[s]]
    /\ UNCHANGED <<rest_vars, rr_vars, ext_vars>>
    /\ UNCHANGED <<kind, opened_bi_streams_number, api_pc, api_op, api_res,
                   cur, n_cli_streams, tls_conn, io_channel, send_channel,
                   recv_channel, wire, replied, pump, pump_msg, bridge_out,
                   bridge_in, app_sent, app_rcvd>>

\* application messages of the peer on stream s
PeerMsg(s, i) == 100 * s + i

\* the peer sends its next message on stream s; the wrapper's reader task
\* decodes it into recv_channel
PeerSends(s) ==
    /\ st[s] = "open"
    /\ replied[s]
    /\ peer_sent[s] < MaxAppMsgs
    /\ Len(recv_channel[s]) < ChanCap
    /\ recv_channel' = [recv_channel EXCEPT
                           ![s] = Append(@, PeerMsg(s, peer_sent[s] + 1))]
    /\ peer_sent' = [peer_sent EXCEPT ![s] = @ + 1]
    /\ UNCHANGED <<rest_vars, rr_vars, api_vars>>
    /\ UNCHANGED <<st, send_channel, wire, replied, pump, pump_msg,
                   bridge_out, bridge_in, app_sent, app_rcvd, app_dropped,
                   timeout_channel, bridge_timeout, app_timeouts, acked,
                   timed_out>>

\* the pending table of the timeout wrapper of stream s: application
\* messages written and neither acknowledged nor expired
Pending(s) ==
    IF IsTimeoutKind(kind)
    THEN {m \in Range(wire[s]) : m > 0} \ (acked \cup timed_out)
    ELSE {}

\* an Ack of the peer for message m arrives: the entry leaves the table
PeerAck(s, m) ==
    /\ st[s] = "open"
    /\ m \in Pending(s)
    /\ acked' = acked \cup {m}
    /\ UNCHANGED <<rest_vars, rr_vars, api_vars>>
    /\ UNCHANGED <<st, send_channel, recv_channel, wire, replied, pump,
                   pump_msg, bridge_out, bridge_in, app_sent, app_rcvd,
                   app_dropped, timeout_channel, bridge_timeout, app_timeouts,
                   peer_sent, timed_out>>

\* the entry of message m expires: it is published on the wrapper's
\* timeout channel, once
WrapperExpires(s, m) ==
    /\ st[s] = "open"
    /\ m \in Pending(s)
    /\ Len(timeout_channel[s]) < ChanCap
    /\ timeout_channel' = [timeout_channel EXCEPT ![s] = Append(@, m)]
    /\ timed_out' = timed_out \cup {m}
    /\ UNCHANGED <<rest_vars, rr_vars, api_vars>>
    /\ UNCHANGED <<st, send_channel, recv_channel, wire, replied, pump,
                   pump_msg, bridge_out, bridge_in, app_sent, app_rcvd,
                   app_dropped, bridge_timeout, app_timeouts, peer_sent,
                   acked>>

\* ---- the application, holding the channel ends it was given

\* the ends io_channel / io_channel_token / operation_channel return
AppEnds ==
    IF IsTimeoutKind(kind) THEN {"out", "in", "timeout"} ELSE {"out", "in"}

\* timeout.recv().await
AppRecvTimeout ==
    /\ io_channel = "app"
    /\ "timeout" \in AppEnds \ app_dropped
    /\ bridge_timeout # <<>>
    /\ app_timeouts' = Append(app_timeouts, Head(bridge_timeout))
    /\ bridge_timeout' = Tail(bridge_timeout)
    /\ UNCHANGED <<rest_vars, rr_vars, api_vars>>
    /\ UNCHANGED <<st, send_channel, recv_channel, wire, replied, pump,
                   pump_msg, bridge_out, bridge_in, app_sent, app_rcvd,
                   app_dropped, timeout_channel, peer_sent, acked, timed_out>>

\* the application drops the channel end e
AppDrop(e) ==
    /\ io_channel = "app"
    /\ e \in AppEnds \ app_dropped
    /\ app_dropped' = app_dropped \cup {e}
    /\ UNCHANGED <<rest_vars, rr_vars, api_vars>>
    /\ UNCHANGED <<st, send_channel, recv_channel, wire, replied, pump,
                   pump_msg, bridge_out, bridge_in, app_sent, app_rcvd,
                   timeout_channel, bridge_timeout, app_timeouts, peer_sent,
                   acked, timed_out>>

\* outbound.send(msg).await
AppSend ==
    /\ io_channel = "app"
    /\ "out" \notin app_dropped
    /\ BridgeHeld
    /\ app_sent < MaxAppMsgs
    /\ HasRoom(bridge_out)
    /\ bridge_out' = Append(bridge_out, app_sent + 1)
    /\ app_sent' = app_sent + 1
    /\ UNCHANGED <<rest_vars, rr_vars, ext_vars>>
    /\ UNCHANGED <<kind, opened_bi_streams_number, api_pc, api_op, api_res,
                   cur, n_cli_streams, cli_conn, tls_conn, io_channel, st,
                   send_channel, recv_channel, wire, replied, pump, pump_msg,
                   bridge_in, app_rcvd>>

\* inbound.recv().await
AppRecv ==
    /\ io_channel = "app"
    /\ "in" \notin app_dropped
    /\ bridge_in # <<>>
    /\ app_rcvd' = Append(app_rcvd, Head(bridge_in))
    /\ bridge_in' = Tail(bridge_in)
    /\ UNCHANGED <<rest_vars, rr_vars, ext_vars>>
    /\ UNCHANGED <<kind, opened_bi_streams_number, api_pc, api_op, api_res,
                   cur, n_cli_streams, cli_conn, tls_conn, io_channel, st,
                   send_channel, recv_channel, wire, replied, pump, pump_msg,
                   bridge_out, app_sent>>

\* Part I is not running in the behaviours of Part II, and conversely
RRParked ==
    /\ max_bi_streams = 1
    /\ opened_streams = 1
    /\ pool = <<>>
    /\ conn_alive = TRUE
    /\ n_streams = 0
    /\ dropped = {}
    /\ req_wire = [s \in StreamIds |-> <<>>]
    /\ resp_wire = [s \in StreamIds |-> <<>>]
    /\ rr_pc = [c \in AllCalls |-> "idle"]
    /\ rr_path = [c \in AllCalls |-> "none"]
    /\ rr_pair = [c \in AllCalls |-> 0]
    /\ rr_used = [c \in AllCalls |-> 0]
    /\ rr_sent = [c \in AllCalls |-> 0]
    /\ rr_rcvd = [c \in AllCalls |-> 0]
    /\ rr_res = [c \in AllCalls |-> 0]

CliNext ==
    \/ StartNetStreams("new_net_streams")
    \/ StartNetStreams("io_channel_token")
    \/ StartConnection
    \/ OpenBiStream
    \/ OpenBiStreamErr
    \/ TlsConnectionGone
    \/ RawWriteAuth
    \/ RawWriteAuthErr
    \/ EnqueueAuth
    \/ EnqueueAuthErr
    \/ SpawnPump
    \/ StreamReady
    \/ TakeIoChannel
    \/ \E s \in CliStreams : PumpTakeOut(s)
    \/ \E s \in CliStreams : PumpSendOut(s)
    \/ \E s \in CliStreams : PumpSendOutErr(s)
    \/ \E s \in CliStreams : PumpTakeIn(s)
    \/ \E s \in CliStreams : PumpDeliverIn(s)
    \/ \E s \in CliStreams : PumpRecvNone(s)
    \/ \E s \in CliStreams : WrapperWrite(s)
    \/ \E s \in CliStreams : PeerAuthReply(s)
    \/ \E s \in CliStreams : PeerClosesStream(s)
    \/ CliConnDies
    \/ AppSend
    \/ AppRecv

InitCli == RRParked /\ CliInit /\ RestParked

SpecCli == InitCli /\ [][CliNext]_vars

\* ---- one stream and its pump: the application asks for its channel ends
\* once (a sub-connection is configured with one pre-opened stream)

\* the first call of io_channel_token / io_channel_server_info
FirstStream(op) == n_cli_streams = 0 /\ StartNetStreams(op)

\* a step of the set-up of the stream
OneSetup ==
    \/ FirstStream("io_channel_token")
    \/ StartConnection
    \/ OpenBiStream
    \/ RawWriteAuth
    \/ RawWriteAuthErr
    \/ EnqueueAuth
    \/ EnqueueAuthErr
    \/ SpawnPump
    \/ StreamReady
    \/ TakeIoChannel

\* a step of the pump task of stream s
PumpStep(s) ==
    \/ PumpTakeOut(s)
    \/ PumpSendOut(s)
    \/ PumpSendOutErr(s)
    \/ PumpTakeIn(s)
    \/ PumpDeliverIn(s)
    \/ PumpRecvNone(s)
    \/ PumpTakeTimeout(s)
    \/ PumpDeliverTimeout(s)
    \/ PumpTimeoutNone(s)

\* a step of the pump task of stream s that finds an application end dropped
PumpStepDropped(s) ==
    \/ PumpOutClosed(s)
    \/ PumpDeliverInErr(s)
    \/ PumpDeliverTimeoutErr(s)

\* a step of the peer or of the timer task of the timeout wrapper
PeerStep(s) ==
    \/ PeerAuthReply(s)
    \/ PeerSends(s)
    \/ PeerClosesStream(s)
    \/ \E m \in 1..MaxAppMsgs : PeerAck(s, m)
    \/ \E m \in 1..MaxAppMsgs : WrapperExpires(s, m)

\* a step of the application
AppStep ==
    \/ AppSend
    \/ AppRecv
    \/ AppRecvTimeout

OneNext ==
    \/ OneSetup
    \/ \E s \in AllStreams : PumpStep(s)
    \/ \E s \in AllStreams : WrapperWrite(s)
    \/ \E s \in AllStreams : PeerStep(s)
    \/ AppStep

InitOne == RRParked /\ CliStart(Kinds, {1}) /\ RestParked

SpecOne == InitOne /\ [][OneNext]_vars

\* ---- a sub-connection with several pre-opened streams whose pumps share
\* the bridge channels; the streams stay open, the peer answers the Auth
\* frames only and the application pushes messages without reading

SubNext ==
    \/ StartConnection
    \/ OpenBiStream
    \/ RawWriteAuth
    \/ EnqueueAuth
    \/ SpawnPump
    \/ StreamReady
    \/ TakeIoChannel
    \/ \E s \in AllStreams : PumpTakeOut(s)
    \/ \E s \in AllStreams : PumpSendOut(s)
    \/ \E s \in AllStreams : PumpTakeIn(s)
    \/ \E s \in AllStreams : PumpDeliverIn(s)
    \/ \E s \in AllStreams : WrapperWrite(s)
    \/ \E s \in AllStreams : PeerAuthReply(s)
    \/ AppSend

InitSub ==
    /\ RRParked
    /\ CliStart({"SubConnection", "SubConnectionTimeout"}, {MaxSubStreams})
    /\ RestParked

SpecSub == InitSub /\ [][SubNext]_vars

\* ---- one stream and an application that pushes messages and drops its
\* channel ends without reading them; the peer answers the Auth frame, stays
\* silent afterwards and may close the stream

DropNext ==
    \/ OneSetup
    \/ \E s \in AllStreams : PumpStep(s)
    \/ \E s \in AllStreams : PumpStepDropped(s)
    \/ \E s \in AllStreams : WrapperWrite(s)
    \/ \E s \in AllStreams : PeerAuthReply(s)
    \/ \E s \in AllStreams : PeerClosesStream(s)
    \/ \E s \in AllStreams, m \in 1..MaxAppMsgs : WrapperExpires(s, m)
    \/ AppSend
    \/ \E e \in {"out", "in", "timeout"} : AppDrop(e)

\* a spawned pump task is polled by the runtime whenever it can proceed
PumpRuns(s) == PumpStep(s) \/ PumpStepDropped(s)

\* the runtime schedules every pump task and every writer task of a
\* wrapper; the application, the peer and the timers are free
SpecDropLive ==
    /\ InitOne
    /\ [][DropNext]_vars
    /\ \A s \in AllStreams : WF_vars(PumpRuns(s))
    /\ \A s \in AllStreams : WF_vars(WrapperWrite(s))

\* ---- a running Client or ClientTimeout whose io_channel_token /
\* io_channel_server_info is called again and again: every call opens a
\* stream of its own

\* io_channel_token / io_channel_server_info is called on a client that may
\* have streams already
RepeatNetStreams(op) ==
    /\ kind \in {"Client", "ClientTimeout"}
    /\ api_pc = "idle"
    /\ api_res # "panic"
    /\ n_cli_streams < MaxSubStreams
    /\ api_op' = op
    /\ api_pc' = "open"
    /\ api_res' = "running"
    /\ UNCHANGED <<rest_vars, rr_vars, ext_vars>>
    /\ UNCHANGED <<kind, opened_bi_streams_number, cur, n_cli_streams,
                   cli_conn, tls_conn, io_channel, st, send_channel,
                   recv_channel, wire, replied, pump, pump_msg, bridge_out,
                   bridge_in, app_sent, app_rcvd>>

TokenNext ==
    \/ RepeatNetStreams("io_channel_token")
    \/ OpenBiStream
    \/ OpenBiStreamErr
    \/ EnqueueAuth
    \/ EnqueueAuthErr
    \/ SpawnPump
    \/ StreamReady
    \/ \E s \in AllStreams : PumpTakeIn(s)
    \/ \E s \in AllStreams : PumpDeliverIn(s)
    \/ \E s \in AllStreams : PumpRecvNone(s)
    \/ \E s \in AllStreams : WrapperWrite(s)
    \/ \E s \in AllStreams : PeerAuthReply(s)
    \/ \E s \in AllStreams : PeerClosesStream(s)
    \/ CliConnDies

InitToken == RRParked /\ CliStart({"Client", "ClientTimeout"}, {0}) /\ RestParked

SpecToken == InitToken /\ [][TokenNext]_vars

\* ---- a SubConnection of new_connection with 0..MaxSubStreams pre-opened
\* streams; the peer stays silent and may close any stream, the application
\* pushes messages

SubCloseNext ==
    \/ StartConnection
    \/ OpenBiStream
    \/ EnqueueAuth
    \/ SpawnPump
    \/ StreamReady
    \/ TakeIoChannel
    \/ \E s \in AllStreams : PumpTakeOut(s)
    \/ \E s \in AllStreams : PumpSendOut(s)
    \/ \E s \in AllStreams : PumpSendOutErr(s)
    \/ \E s \in AllStreams : PumpRecvNone(s)
    \/ \E s \in AllStreams : WrapperWrite(s)
    \/ \E s \in AllStreams : PeerClosesStream(s)
    \/ AppSend

InitSubClose ==
    /\ RRParked
    /\ CliStart({"SubConnection"}, 0..MaxSubStreams)
    /\ RestParked

SpecSubClose == InitSubClose /\ [][SubCloseNext]_vars

\* ---- new_connection / new_timeout_connection with MaxSubStreams streams
\* to open, on a connection that may be lost and with a peer that answers
\* the Auth frames and may close any stream: the call may fail part-way

\* a step of the pump task of stream s; the application never gets the
\* ends, so there is nothing outbound and nothing to time out
PartialPump(s) ==
    \/ PumpTakeIn(s)
    \/ PumpDeliverIn(s)
    \/ PumpDeliverInErr(s)
    \/ PumpRecvNone(s)
    \/ PumpOutClosed(s)

PartialNext ==
    \/ StartConnection
    \/ OpenBiStream
    \/ OpenBiStreamErr
    \/ RawWriteAuth
    \/ RawWriteAuthErr
    \/ EnqueueAuth
    \/ EnqueueAuthErr
    \/ SpawnPump
    \/ StreamReady
    \/ \E s \in AllStreams : PumpTakeIn(s)
    \/ \E s \in AllStreams : PumpDeliverIn(s)
    \/ \E s \in AllStreams : PumpDeliverInErr(s)
    \/ \E s \in AllStreams : PumpRecvNone(s)
    \/ \E s \in AllStreams : PumpOutClosed(s)
    \/ \E s \in AllStreams : WrapperWrite(s)
    \/ \E s \in AllStreams : PeerAuthReply(s)
    \/ \E s \in AllStreams : PeerClosesStream(s)
    \/ CliConnDies

InitPartial ==
    /\ RRParked
    /\ CliStart({"SubConnection", "SubConnectionTimeout"}, {MaxSubStreams})
    /\ RestParked

\* the runtime polls every spawned pump task whenever it can proceed; the
\* call, the peer and the connection are free
SpecPartialLive ==
    /\ InitPartial
    /\ [][PartialNext]_vars
    /\ \A s \in AllStreams : WF_vars(PartialPump(s))

(***************************************************************************)
(* Properties of ReqResp (Part I)                                          *)
(***************************************************************************)

\* streams handed out by open_bi whose pair has not been dropped
OpenStreams == (1..n_streams) \ dropped

\* C1: for a ReqResp created with max_bi_streams = K, the number of
\* bidirectional streams open on the connection never exceeds K, under any
\* interleaving of concurrent calls.
C1_StreamsWithinBudget == Cardinality(OpenStreams) <= max_bi_streams

\* C2: with K >= 1 and a server that answers every request, every invoked
\* call eventually returns success; none blocks forever waiting for a pair
\* or putting its pair back.
C2_EveryCallReturns ==
    \A c \in LiveCalls : (rr_pc[c] # "idle") ~> (rr_pc[c] = "ok")

\* C3: every call that returns Ok has put the pair it used back into the
\* pool before returning, on each of its three paths.
C3_OkPutsPairBack ==
    [][\A c \in AllCalls :
          (rr_pc[c] # "ok" /\ rr_pc'[c] = "ok") => rr_used[c] \in Range(pool')]_vars

\* C4: the opened-streams budget is decremented only while positive: the
\* 16-bit counter stays within 0..max_bi_streams, never wrapping to 65535.
C4_BudgetInRange == opened_streams \in 0..max_bi_streams

\* C5: a pair is bound to one call at a time: no two calls own the same
\* pair, no pair is in the pool while a call owns it, and the pool holds no
\* pair twice.
C5_PairBoundToOneCall ==
    /\ \A c1, c2 \in AllCalls :
          (c1 # c2 /\ rr_pair[c1] # 0) => rr_pair[c1] # rr_pair[c2]
    /\ \A c \in AllCalls : rr_pair[c] # 0 => rr_pair[c] \notin Range(pool)
    /\ \A i, j \in DOMAIN pool : i # j => pool[i] # pool[j]

\* C5 witness: a call owns a pair it took from the pool while another call
\* owns a pair too.
C5_Witness ==
    \E c1, c2 \in AllCalls :
       /\ c1 # c2
       /\ rr_path[c1] = "taken"
       /\ rr_pair[c1] # 0
       /\ rr_pair[c2] # 0

\* C6: a call whose send_msg or recv_msg failed has returned an error and
\* its pair is not in the pool: it was dropped.
C6_FailedCallDropsPair ==
    \A c \in AllCalls :
       (rr_pc[c] = "err" /\ rr_used[c] # 0) =>
          /\ rr_pair[c] = 0
          /\ rr_used[c] \notin Range(pool)
          /\ rr_used[c] \in dropped

\* C6 witness: a call failed reading the response after it had written its
\* request on a pair taken from the pool.
C6_Witness ==
    \E c \in AllCalls :
       /\ rr_pc[c] = "err"
       /\ rr_used[c] # 0
       /\ rr_sent[c] = 1
       /\ rr_path[c] = "taken"

\* C7: a call that got its response wrote exactly one request and read
\* exactly one response, and the frame it returns is the answer to its own
\* request.
C7_OwnResponse ==
    \A c \in AllCalls :
       rr_pc[c] \in {"put", "ok"} =>
          /\ rr_sent[c] = 1
          /\ rr_rcvd[c] = 1
          /\ rr_res[c] = RespOf(ReqOf(c))

\* C7 witness: two calls have returned Ok after using the same pair, a third
\* one after using another pair.
C7_Witness ==
    \E c1, c2, c3 \in AllCalls :
       /\ c1 # c2
       /\ rr_pc[c1] = "ok" /\ rr_pc[c2] = "ok" /\ rr_pc[c3] = "ok"
       /\ rr_used[c1] = rr_used[c2]
       /\ rr_used[c3] # rr_used[c1]

(***************************************************************************)
(* Properties of the stream clients (Part II)                              *)
(***************************************************************************)

\* everything the client has handed to stream s, in order: the frames
\* written already, then those still queued in the wrapper
Submitted(s) == wire[s] \o send_channel[s]

RECURSIVE AuthCount(_)
AuthCount(q) ==
    IF q = <<>> THEN 0
    ELSE (IF Head(q) = AuthMsg THEN 1 ELSE 0) + AuthCount(Tail(q))

\* C8: on every stream the Auth message is the first frame: it is on the
\* wrapper's send channel before the pump task exists, so no application
\* message precedes it on the stream.
C8_AuthFirst ==
    \A s \in CliStreams :
       /\ pump[s] # "none" => Submitted(s) # <<>>
       /\ pump_msg[s] # 0 => Submitted(s) # <<>>
       /\ Submitted(s) # <<>> => Head(Submitted(s)) = AuthMsg
       /\ wire[s] # <<>> => Head(wire[s]) = AuthMsg

\* C8 witness: an application message that was pushed before the stream
\* was opened has been written on it, after the Auth frame.
C8_Witness ==
    \E s \in CliStreams :
       /\ Len(wire[s]) >= 2
       /\ wire[s][1] = AuthMsg
       /\ wire[s][Len(wire[s])] > 0

\* C9: every new stream carries the Auth frame once and only once, whether
\* opened by new_net_streams, new_connection or new_timeout_connection.
C9_ExactlyOneAuth ==
    \A s \in CliStreams :
       /\ AuthCount(Submitted(s)) <= 1
       /\ pump[s] # "none" => AuthCount(Submitted(s)) = 1

\* C10: io_channel_token / io_channel_server_info / new_connection return Ok
\* only after the peer's Auth reply was received on the streams they opened.
C10_OkNeedsAuthReply ==
    (/\ api_pc = "idle"
     /\ api_res = "ok"
     /\ api_op \in {"io_channel_token", "new_connection",
                    "new_timeout_connection"})
       => \A s \in 1..n_cli_streams : replied[s]

\* C11: when enqueuing the Auth message on a newly opened stream fails, the
\* call (new_net_streams, io_channel_token, new_connection) returns an error,
\* the stream has no pump task, and io_channel stays with its holder.
C11_AuthFailureAborts ==
    [][(api_pc = "auth" /\ api_pc' = "idle") =>
          /\ api_res' = "err"
          /\ pump'[cur] = "none"
          /\ cur' = cur
          /\ io_channel' = io_channel]_vars

\* C11 witness: io_channel_token has returned an error on a stream that was
\* opened and closed before the Auth message could be enqueued; the stream
\* has no pump and the channel ends are still in the client.
C11_Witness ==
    /\ api_op = "io_channel_token"
    /\ api_pc = "idle"
    /\ api_res = "err"
    /\ cur > 0
    /\ st[cur] = "closed"
    /\ Submitted(cur) = <<>>
    /\ pump[cur] = "none"
    /\ io_channel = "client"

\* the peer has closed every stream the client opened and every pump task
\* has ended
AllStreamsClosed ==
    /\ n_cli_streams >= 1
    /\ \A s \in 1..n_cli_streams : st[s] = "closed" /\ pump[s] = "done"

\* C12: once the peer has closed the stream of a Client, ClientTimeout or
\* ClientTlsTimeout and the pump has ended, the ends the application holds
\* are closed: nobody holds the other end of the inbound and outbound bridge
\* channels any more, so recv yields end-of-stream and send fails.
C12_PeerCloseReachesApp ==
    (/\ ~IsMulti(kind)
     /\ io_channel = "app"
     /\ AllStreamsClosed) => ~BridgeHeld

\* every end the application was given is dropped
AllEndsDropped == io_channel = "app" /\ AppEnds \subseteq app_dropped

\* no pump task has ended
NoPumpEnded == \A s \in AllStreams : pump[s] # "done"

\* no pump task is alive
NoPumpRunning == \A s \in AllStreams : pump[s] \notin PumpRunning

\* C13: after the application has dropped all the channel ends it was given,
\* every pump task of the client eventually terminates (and with it go the
\* wrapper's send and receive channels it owned), whatever the peer does.
C13_AllDroppedEndsPumps == AllEndsDropped ~> NoPumpRunning

\* C13 witness: the application pushed a message and dropped all its ends;
\* the pump forwarded what was queued and ended on a stream that the peer
\* has not closed.
C13_Witness ==
    /\ AllEndsDropped
    /\ app_sent > 0
    /\ bridge_out = <<>>
    /\ \E s \in AllStreams :
          /\ st[s] = "open"
          /\ pump[s] = "done"
          /\ Len(Submitted(s)) >= 2

\* C14: after the application has dropped any one of its channel ends (the
\* outbound sender, the inbound receiver or the timeout receiver), every pump
\* task eventually terminates, even if the stream and the timers stay silent.
C14_AnyDroppedEndEndsPumps ==
    (io_channel = "app" /\ app_dropped # {}) ~> NoPumpRunning

\* the application messages among the frames q
AppFrames(q) == SelectSeq(q, LAMBDA x : x > 0)

\* the message the pump of stream s is forwarding in state p
Forwarding(s, p) == IF pump[s] = p THEN <<pump_msg[s]>> ELSE <<>>

\* the application messages on their way out through stream s, oldest first
OutboundPath(s) ==
    AppFrames(Submitted(s)) \o Forwarding(s, "fwd_out") \o bridge_out

\* the messages of stream s on their way in, oldest first
InboundPath(s) ==
    app_rcvd \o bridge_in \o Forwarding(s, "fwd_in") \o recv_channel[s]

\* what the peer has sent on stream s, in order
PeerFrames(s) ==
    (IF replied[s] THEN <<AuthReply>> ELSE <<>>)
        \o [i \in 1..peer_sent[s] |-> PeerMsg(s, i)]

RECURSIVE Count(_, _)
\* number of occurrences of m in the sequence q
Count(q, m) ==
    IF q = <<>> THEN 0
    ELSE (IF Head(q) = m THEN 1 ELSE 0) + Count(Tail(q), m)

RECURSIVE SumOver(_, _, _)
\* sum over the streams of S of the occurrences of m in F[s]
SumOver(F, S, m) ==
    IF S = {} THEN 0
    ELSE LET s == CHOOSE x \in S : TRUE
         IN  Count(F[s], m) + SumOver(F, S \ {s}, m)

\* per stream, the outbound messages handed to the stream or held by its pump
StreamOut == [s \in AllStreams |-> Submitted(s) \o Forwarding(s, "fwd_out")]

\* number of copies of application message m on the outbound side
OutCopies(m) == Count(bridge_out, m) + SumOver(StreamOut, AllStreams, m)

C17_BoundedAndBlocking ==
    [][/\ Len(bridge_out') <= ChanCap
       /\ Len(bridge_in') <= ChanCap
       /\ Len(bridge_timeout') <= ChanCap
       /\ \A s \in AllStreams :
             /\ (pump[s] = "fwd_in" /\ Len(bridge_in) >= ChanCap) =>
                    /\ pump'[s] = "fwd_in"
                    /\ pump_msg'[s] = pump_msg[s]
                    /\ Len(recv_channel'[s]) >= Len(recv_channel[s])
             /\ (pump[s] = "fwd_in" /\ pump'[s] # "fwd_in") =>
                    bridge_in' = Append(bridge_in, pump_msg[s])]_vars

\* C17 witness: the inbound bridge channel is full, the pump is blocked
\* delivering the next message and a further message of the peer waits in
\* the wrapper's receive channel.
C17_Witness ==
    \E s \in AllStreams :
       /\ pump[s] = "fwd_in"
       /\ Len(bridge_in) = ChanCap
       /\ pump_msg[s] = PeerMsg(s, 1)
       /\ recv_channel[s] = <<PeerMsg(s, 2)>>

\* per stream, the notifications queued by the wrapper or held by the pump
StreamTimeouts ==
    [s \in AllStreams |-> timeout_channel[s] \o Forwarding(s, "fwd_to")]

\* number of notifications for message m on the way to the application or
\* received by it
TimeoutCopies(m) ==
    SumOver(StreamTimeouts, AllStreams, m)
        + Count(bridge_timeout, m) + Count(app_timeouts, m)

\* C18: for the timeout clients, a message whose entry expired has exactly
\* one notification on the way to the application or received by it (the
\* pump forwards each notification once), and a message that was acknowledged
\* or is still pending has none; the other clients have no notification.
C18_TimeoutExactlyOnce ==
    \A m \in 1..MaxAppMsgs :
       /\ TimeoutCopies(m) <= 1
       /\ (m \in timed_out /\ NoPumpEnded) => TimeoutCopies(m) = 1
       /\ m \notin timed_out => TimeoutCopies(m) = 0
       /\ m \in acked => TimeoutCopies(m) = 0
       /\ ~IsTimeoutKind(kind) => TimeoutCopies(m) = 0

\* C18 witness: the application has received the notification of a message
\* that expired, and another message was acknowledged in time.
C18_Witness ==
    \E m1, m2 \in 1..MaxAppMsgs :
       /\ m1 \in acked
       /\ m2 \in timed_out
       /\ app_timeouts = <<m2>>

\* C19: a message that timed out stays written once: the pump hands the
\* notification to the timeout channel only and never puts the message on
\* the stream's send channel again.
C19_NoRetransmit ==
    \A m \in timed_out : OutCopies(m) = 1

\* C19 witness: the pump has forwarded the notification of a message and is
\* back in its select; the message is on the stream once.
C19_Witness ==
    \E s \in AllStreams, m \in timed_out :
       /\ pump[s] = "select"
       /\ m \in Range(bridge_timeout)
       /\ Count(wire[s], m) = 1

\* C20: a ClientTlsTimeout has one logical stream: whatever is called after
\* run(), at most one stream is set up and at most one pump task is spawned,
\* and once io_channel_token has returned its triple no later call returns
\* Ok.
C20_TlsSingleStream ==
    [][kind = "ClientTlsTimeout" =>
          /\ n_cli_streams' <= 1
          /\ Cardinality({s \in AllStreams : pump'[s] # "none"}) <= 1
          /\ (io_channel = "app" /\ api_pc # "idle" /\ api_pc' = "idle")
                 => api_res' # "ok"]_vars

\* C20 witness: a ClientTlsTimeout whose io_channel_token returned the triple
\* was called again and the call panicked on the connection that is gone;
\* the one pump is there.
C20_Witness ==
    /\ kind = "ClientTlsTimeout"
    /\ io_channel = "app"
    /\ api_res = "panic"
    /\ ~tls_conn
    /\ n_cli_streams = 1
    /\ pump[1] # "none"

\* the pump of stream s is inside a send().await of a select! branch, before
\* and after the step
StaysIn(s, p) == pump[s] = p /\ pump'[s] = p

\* the step takes nothing from the queues the pump of stream s reads
\* and puts nothing on the queues it writes (the one pump of the client)
PumpIdle(s) ==
    /\ Len(bridge_out') >= Len(bridge_out)
    /\ Len(recv_channel'[s]) >= Len(recv_channel[s])
    /\ Len(timeout_channel'[s]) >= Len(timeout_channel[s])
    /\ Len(send_channel'[s]) <= Len(send_channel[s])
    /\ Len(bridge_in') <= Len(bridge_in)
    /\ Len(bridge_timeout') <= Len(bridge_timeout)
    /\ pump_msg'[s] = pump_msg[s]

\* C37: the two directions of a stream stall together: while the pump is
\* blocked delivering an inbound message to the full inbound bridge channel
\* it forwards no outbound message and no timeout notification until that
\* delivery completes (or fails), and while it is blocked handing an
\* outbound message to the wrapper it delivers no inbound message and no
\* timeout notification.
C37_DirectionsStallTogether ==
    [][\A s \in AllStreams :
          /\ (StaysIn(s, "fwd_in") \/ StaysIn(s, "fwd_out")) => PumpIdle(s)
          /\ (pump[s] = "fwd_in" /\ pump'[s] = "select")
                => bridge_in' = Append(bridge_in, pump_msg[s])
          /\ (pump[s] = "fwd_out" /\ pump'[s] = "select")
                => send_channel'[s] = Append(send_channel[s], pump_msg[s])
          /\ (pump[s] \in {"fwd_in", "fwd_out"} /\ pump'[s] # pump[s])
                => pump'[s] \in {"select", "done"}]_vars

\* C37 witness: the pump holds an inbound message it cannot deliver, the
\* inbound bridge channel being full, while an outbound message of the
\* application waits in the outbound bridge channel and the wrapper has
\* room for it.
C37_Witness ==
    \E s \in AllStreams :
        /\ pump[s] = "fwd_in"
        /\ ~HasRoom(bridge_in)
        /\ bridge_out # <<>>
        /\ st[s] = "open"
        /\ send_channel[s] = <<>>

C38_PartialFailureEndsPumps == FrameDropped ~> NoPumpRunning

\* C38 witness: the call failed on its second stream; the pump of the first
\* stream, whose stream is open and has nothing inbound, has ended.
C38_Witness ==
    /\ FrameDropped
    /\ n_cli_streams = 2
    /\ st[1] = "open"
    /\ recv_channel[1] = <<>>
    /\ pump[1] = "done"
    /\ pump[2] = "none"

\* C35: io_channel_token / io_channel_server_info can be called repeatedly
\* on a running Client or ClientTimeout: no call panics, the first one or a
\* later one, so that none leaves the stream it opened without returning.
C35_TokenCallsRepeat ==
    kind \in {"Client", "ClientTimeout"} =>
        ~(api_op = "io_channel_token" /\ api_res = "panic")

(***************************************************************************)
(* Part III: ClientReqwest                                                 *)
(*                                                                         *)
(* call(&self) is a plain function that any thread may run; its atomic     *)
(* steps are the fetch_sub on the budget, the insertion of the operator,   *)
(* the choice of an operator, the fetch_add on the operator's counter and  *)
(* the send on the operator's one-shot channel.  An operator is known by   *)
(* its id (Operator.3, the value fetch_sub returned): the set hashes and   *)
(* compares operators by that id alone.                                    *)
(***************************************************************************)

\* positions of a call that has ended: each one is a panic, call has no
\* statement that returns Ok
RqPanicked == {"panic_unwrap", "panic_range", "panic_todo"}

\* DashSet::insert: an operator whose id is in the set already stays
Put(f, o, v) == IF o \in DOMAIN f THEN f ELSE (o :> v) @@ f

\* variant of NextReqId: the counter is read and left as it is
NextReqId_Load(n) == n

\* AtomicU64::fetch_add(1) on Operator.0
NextReqId(n) == n + 1

\* operator_set.iter().nth(fastrand::u16(0..len)): any operator of the set
PickOperator(c) == operator_set

\* the one-shot channel of operator o still takes a value
OneShotOpen(o) ==
    /\ op_inbox[o] = <<>>
    /\ op_taken[o] = <<>>
    /\ op_task[o] # "ended"

\* ClientReqwest::run needs &mut self, as does dropping the client: no call
\* is inside call() then
NoCallRunning == \A c \in RqCalls : rq_pc[c] \in {"idle"} \cup RqPanicked

\* ClientReqwest::run: the connection is set up and the budget becomes
\* max_bi_streams as u16 (a second run panics on config.take().unwrap())
RqRun ==
    /\ rq_alive
    /\ ~connection
    /\ NoCallRunning
    /\ connection' = TRUE
    /\ remaining_streams' = rq_max_bi_streams % U16
    /\ UNCHANGED <<rq_max_bi_streams, rq_alive, operator_set, op_req_id,
                   op_handed, op_task, op_stream, op_inbox, op_taken,
                   op_frames, rq_pc, rq_remain, rq_op, rq_id>>
    /\ UNCHANGED <<rr_vars, cli_vars, mc_vars, aux_vars>>

\* call: let remain_streams = self.remaining_streams.fetch_sub(1, SeqCst)
RqFetchSub(c) ==
    /\ rq_alive
    /\ rq_pc[c] = "idle"
    /\ rq_remain' = [rq_remain EXCEPT ![c] = remaining_streams]
    /\ remaining_streams' = FetchSub(remaining_streams)
    /\ rq_pc' = [rq_pc EXCEPT
                   ![c] = IF remaining_streams > 0 THEN "alloc" ELSE "pick"]
    /\ UNCHANGED <<rq_max_bi_streams, connection, rq_alive, operator_set,
                   op_req_id, op_handed, op_task, op_stream, op_inbox,
                   op_taken, op_frames, rq_op, rq_id>>
    /\ UNCHANGED <<rr_vars, cli_vars, mc_vars, aux_vars>>

\* call, remain_streams > 0: the multiplexer task is spawned and the
\* operator is inserted under the id remain_streams; connection.unwrap()
\* panics when the client was never run
RqNewOperator(c) ==
    /\ rq_pc[c] = "alloc"
    /\ IF ~connection
       THEN /\ rq_pc' = [rq_pc EXCEPT ![c] = "panic_unwrap"]
            /\ UNCHANGED <<operator_set, op_req_id, op_handed, op_task,
                           op_stream, op_inbox, op_taken, op_frames>>
       ELSE /\ operator_set' = operator_set \cup {rq_remain[c]}
            /\ op_req_id' = Put(op_req_id, rq_remain[c], 0)
            /\ op_handed' = Put(op_handed, rq_remain[c], <<>>)
            /\ op_task' = Put(op_task, rq_remain[c], "spawned")
            /\ op_stream' = Put(op_stream, rq_remain[c], "none")
            /\ op_inbox' = Put(op_inbox, rq_remain[c], <<>>)
            /\ op_taken' = Put(op_taken, rq_remain[c], <<>>)
            /\ op_frames' = Put(op_frames, rq_remain[c], 0)
            /\ rq_pc' = [rq_pc EXCEPT ![c] = "pick"]
    /\ UNCHANGED <<rq_max_bi_streams, connection, rq_alive,
                   remaining_streams, rq_remain, rq_op, rq_id>>
    /\ UNCHANGED <<rr_vars, cli_vars, mc_vars, aux_vars>>

\* call: an index below operator_set.len() is drawn and the operator at that
\* position of the iteration is taken; fastrand panics on the empty range
\* 0..0.  The set never shrinks, so nth(index) is never None.
RqPickOperator(c) ==
    /\ rq_pc[c] = "pick"
    /\ IF operator_set = {}
       THEN /\ rq_pc' = [rq_pc EXCEPT ![c] = "panic_range"]
            /\ UNCHANGED rq_op
       ELSE /\ \E o \in PickOperator(c) : rq_op' = [rq_op EXCEPT ![c] = o]
            /\ rq_pc' = [rq_pc EXCEPT ![c] = "add"]
    /\ UNCHANGED <<rq_max_bi_streams, connection, rq_alive,
                   remaining_streams, operator_set, op_req_id, op_handed,
                   op_task, op_stream, op_inbox, op_taken, op_frames,
                   rq_remain, rq_id>>
    /\ UNCHANGED <<rr_vars, cli_vars, mc_vars, aux_vars>>

\* call: let req_id = operator.0.fetch_add(1, SeqCst)
RqFetchAdd(c) ==
    /\ rq_pc[c] = "add"
    /\ rq_id' = [rq_id EXCEPT ![c] = op_req_id[rq_op[c]]]
    /\ op_req_id' = [op_req_id EXCEPT ![rq_op[c]] = NextReqId(@)]
    /\ op_handed' = [op_handed EXCEPT
                       ![rq_op[c]] = Append(@, op_req_id[rq_op[c]])]
    /\ rq_pc' = [rq_pc EXCEPT ![c] = "send"]
    /\ UNCHANGED <<rq_max_bi_streams, connection, rq_alive,
                   remaining_streams, operator_set, op_task, op_stream,
                   op_inbox, op_taken, op_frames, rq_remain, rq_op>>
    /\ UNCHANGED <<rr_vars, cli_vars, mc_vars, aux_vars>>

\* call: (req_id, req, tx) is sent on the operator's one-shot channel, the
\* result of send is not looked at, and todo!() panics: rx is dropped with
\* the frame of call, no ReqwestResp is built
RqSubmit(c) ==
    /\ rq_pc[c] = "send"
    /\ op_inbox' = IF OneShotOpen(rq_op[c])
                   THEN [op_inbox EXCEPT
                           ![rq_op[c]] = <<[req_id |-> rq_id[c], req |-> c]>>]
                   ELSE op_inbox
    /\ rq_pc' = [rq_pc EXCEPT ![c] = "panic_todo"]
    /\ UNCHANGED <<rq_max_bi_streams, connection, rq_alive,
                   remaining_streams, operator_set, op_req_id, op_handed,
                   op_task, op_stream, op_taken, op_frames, rq_remain, rq_op,
                   rq_id>>
    /\ UNCHANGED <<rr_vars, cli_vars, mc_vars, aux_vars>>

\* multiplexer task: conn.open_bi().await gave the stream
RqTaskOpenOk(o) ==
    /\ op_task[o] = "spawned"
    /\ op_task' = [op_task EXCEPT ![o] = "select"]
    /\ op_stream' = [op_stream EXCEPT ![o] = "open"]
    /\ UNCHANGED <<rq_max_bi_streams, connection, rq_alive,
                   remaining_streams, operator_set, op_req_id, op_handed,
                   op_inbox, op_taken, op_frames, rq_pc, rq_remain, rq_op,
                   rq_id>>
    /\ UNCHANGED <<rr_vars, cli_vars, mc_vars, aux_vars>>

\* multiplexer task: open_bi failed, the error is logged and the task
\* returns; nothing is told to the operator set
RqTaskOpenErr(o) ==
    /\ op_task[o] = "spawned"
    /\ op_task' = [op_task EXCEPT ![o] = "ended"]
    /\ op_stream' = [op_stream EXCEPT ![o] = "error"]
    /\ UNCHANGED <<rq_max_bi_streams, connection, rq_alive,
                   remaining_streams, operator_set, op_req_id, op_handed,
                   op_inbox, op_taken, op_frames, rq_pc, rq_remain, rq_op,
                   rq_id>>
    /\ UNCHANGED <<rr_vars, cli_vars, mc_vars, aux_vars>>

\* multiplexer task, select: Ok((req_id, req, sender)) => {}: the request
\* and its response sink are dropped, nothing is written on the stream
RqTaskRecvReq(o) ==
    /\ op_task[o] = "select"
    /\ op_inbox[o] # <<>>
    /\ op_taken' = [op_taken EXCEPT ![o] = Append(@, Head(op_inbox[o]))]
    /\ op_inbox' = [op_inbox EXCEPT ![o] = <<>>]
    /\ UNCHANGED <<rq_max_bi_streams, connection, rq_alive,
                   remaining_streams, operator_set, op_req_id, op_handed,
                   op_task, op_stream, op_frames, rq_pc, rq_remain, rq_op,
                   rq_id>>
    /\ UNCHANGED <<rr_vars, cli_vars, mc_vars, aux_vars>>

\* multiplexer task, select: Err(_) => break: the operator, and with it the
\* sender of the one-shot channel, was dropped with the client
RqTaskRecvClosed(o) ==
    /\ op_task[o] = "select"
    /\ ~rq_alive
    /\ op_inbox[o] = <<>>
    /\ op_taken[o] = <<>>
    /\ op_task' = [op_task EXCEPT ![o] = "ended"]
    /\ UNCHANGED <<rq_max_bi_streams, connection, rq_alive,
                   remaining_streams, operator_set, op_req_id, op_handed,
                   op_stream, op_inbox, op_taken, op_frames, rq_pc,
                   rq_remain, rq_op, rq_id>>
    /\ UNCHANGED <<rr_vars, cli_vars, mc_vars, aux_vars>>

\* multiplexer task, select: resp = recv_msg(&mut recv_stream) => {} with a
\* frame of the peer: the frame is dropped, no sink is looked up
RqTaskRecvFrame(o) ==
    /\ op_task[o] = "select"
    /\ op_stream[o] = "open"
    /\ op_frames[o] < MaxFrames
    /\ op_frames' = [op_frames EXCEPT ![o] = @ + 1]
    /\ UNCHANGED <<rq_max_bi_streams, connection, rq_alive,
                   remaining_streams, operator_set, op_req_id, op_handed,
                   op_task, op_stream, op_inbox, op_taken, rq_pc, rq_remain,
                   rq_op, rq_id>>
    /\ UNCHANGED <<rr_vars, cli_vars, mc_vars, aux_vars>>

\* multiplexer task, select: resp = recv_msg(&mut recv_stream) => {} with an
\* error of the stream: the error is dropped too and the loop goes on
RqTaskRecvErr(o) ==
    /\ op_task[o] = "select"
    /\ op_stream[o] = "open"
    /\ op_stream' = [op_stream EXCEPT ![o] = "error"]
    /\ UNCHANGED <<rq_max_bi_streams, connection, rq_alive,
                   remaining_streams, operator_set, op_req_id, op_handed,
                   op_task, op_inbox, op_taken, op_frames, rq_pc, rq_remain,
                   rq_op, rq_id>>
    /\ UNCHANGED <<rr_vars, cli_vars, mc_vars, aux_vars>>

\* the owner drops the ClientReqwest: the operators and their one-shot
\* senders go with it
RqDrop ==
    /\ rq_alive
    /\ NoCallRunning
    /\ rq_alive' = FALSE
    /\ UNCHANGED <<rq_max_bi_streams, connection, remaining_streams,
                   operator_set, op_req_id, op_handed, op_task, op_stream,
                   op_inbox, op_taken, op_frames, rq_pc, rq_remain, rq_op,
                   rq_id>>
    /\ UNCHANGED <<rr_vars, cli_vars, mc_vars, aux_vars>>

\* every operator a task was spawned for
Operators == DOMAIN op_task

\* the steps of one call
RqCallStep(c) ==
    \/ RqFetchSub(c)
    \/ RqNewOperator(c)
    \/ RqPickOperator(c)
    \/ RqFetchAdd(c)
    \/ RqSubmit(c)

\* ---- concurrent calls on a connection that stays up: every stream opens,
\* the peer is silent and the client is kept
RqNext ==
    \/ RqRun
    \/ \E c \in RqCalls : RqCallStep(c)
    \/ \E o \in Operators : RqTaskOpenOk(o)
    \/ \E o \in Operators : RqTaskRecvReq(o)

InitRq ==
    RRParked /\ CliParked /\ RqNew(0..MaxK) /\ McParked /\ AuxParked

SpecRq == InitRq /\ [][RqNext]_vars

\* ---- the same calls with streams that fail, frames of the peer and the
\* drop of the client
RqIoNext ==
    \/ RqRun
    \/ \E c \in RqCalls : RqCallStep(c)
    \/ \E o \in Operators : RqTaskOpenOk(o)
    \/ \E o \in Operators : RqTaskOpenErr(o)
    \/ \E o \in Operators : RqTaskRecvReq(o)
    \/ \E o \in Operators : RqTaskRecvClosed(o)
    \/ \E o \in Operators : RqTaskRecvFrame(o)
    \/ \E o \in Operators : RqTaskRecvErr(o)
    \/ RqDrop

SpecRqIo == InitRq /\ [][RqIoNext]_vars

(***************************************************************************)
(* Part IV: the Msg codec                                                  *)
(*                                                                         *)
(* A byte is a number in 0..255 and a buffer a sequence of bytes.  The u64 *)
(* fields are encoded on their eight bytes; the values that are encoded    *)
(* stay below 2^31.                                                        *)
(***************************************************************************)

\* the values of an i8
I8 == -128..127

\* the variants of Type
AllTypes == {"NA", "Text", "Meme", "Image", "Video", "Audio", "File", "Ack",
             "Sync", "Offline", "Heartbeat", "Auth"}

\* Type::from_i8
FromI8(value) ==
    CASE value = 1 -> "Text"
      [] value = 2 -> "Meme"
      [] value = 3 -> "Image"
      [] value = 4 -> "Video"
      [] value = 5 -> "Audio"
      [] value = 6 -> "File"
      [] value = 7 -> "Ack"
      [] value = 8 -> "Sync"
      [] value = 9 -> "Offline"
      [] value = 10 -> "Heartbeat"
      [] value = 11 -> "Auth"
      [] OTHER -> "NA"

\* variant of TypeValue: the values of Ack and Sync are exchanged
TypeValue_Swapped(t) ==
    CASE t = "Text" -> 1
      [] t = "Meme" -> 2
      [] t = "Image" -> 3
      [] t = "Video" -> 4
      [] t = "Audio" -> 5
      [] t = "File" -> 6
      [] t = "Ack" -> 8
      [] t = "Sync" -> 7
      [] t = "Offline" -> 9
      [] t = "Heartbeat" -> 10
      [] t = "Auth" -> 11
      [] OTHER -> 0

\* Type::value
TypeValue(t) ==
    CASE t = "Text" -> 1
      [] t = "Meme" -> 2
      [] t = "Image" -> 3
      [] t = "Video" -> 4
      [] t = "Audio" -> 5
      [] t = "File" -> 6
      [] t = "Ack" -> 7
      [] t = "Sync" -> 8
      [] t = "Offline" -> 9
      [] t = "Heartbeat" -> 10
      [] t = "Auth" -> 11
      [] OTHER -> 0

\* the casts `as u8` of an i8 and `as i8` of a u8 (two's complement)
AsU8(v) == v % 256
AsI8(b) == IF b >= 128 THEN b - 256 ELSE b

\* byteorder::BigEndian::write_u16 / write_u64: the w low bytes of n, the
\* most significant one first
RECURSIVE WriteBE(_, _)
WriteBE(n, w) ==
    IF w = 0 THEN <<>> ELSE Append(WriteBE(n \div 256, w - 1), n % 256)

\* byteorder::BigEndian::read_u16 / read_u64
RECURSIVE ReadBE(_)
ReadBE(b) ==
    IF b = <<>> THEN 0
    ELSE ReadBE(SubSeq(b, 1, Len(b) - 1)) * 256 + b[Len(b)]

\* the slice buf[a..b] (from offset a, b excluded)
Slice(buf, a, b) == SubSeq(buf, a + 1, b)

\* variant of HeadAsBytes: sender and receiver are written in each other's
\* place
HeadAsBytes_Swapped(h) ==
    WriteBE(h.length, 2) \o <<AsU8(TypeValue(h.typ))>>
        \o WriteBE(h.receiver, 8) \o WriteBE(h.sender, 8)
        \o WriteBE(h.timestamp, 8) \o WriteBE(h.seq_num, 8)
        \o WriteBE(h.version, 2)

\* Head::as_bytes
HeadAsBytes(h) ==
    WriteBE(h.length, 2) \o <<AsU8(TypeValue(h.typ))>>
        \o WriteBE(h.sender, 8) \o WriteBE(h.receiver, 8)
        \o WriteBE(h.timestamp, 8) \o WriteBE(h.seq_num, 8)
        \o WriteBE(h.version, 2)

\* the slices Head::from takes of its buffer
HeadSlices == {<<0, 2>>, <<2, 3>>, <<3, 11>>, <<11, 19>>, <<19, 27>>,
               <<27, 35>>, <<35, 37>>}

\* slicing past the end of the buffer panics
HeadFromPanics(buf) == \E r \in HeadSlices : r[2] > Len(buf)

\* Head::from
HeadFrom(buf) ==
    [length |-> ReadBE(Slice(buf, 0, 2)),
     typ |-> FromI8(AsI8(buf[3])),
     sender |-> ReadBE(Slice(buf, 3, 11)),
     receiver |-> ReadBE(Slice(buf, 11, 19)),
     timestamp |-> ReadBE(Slice(buf, 19, 27)),
     seq_num |-> ReadBE(Slice(buf, 27, 35)),
     version |-> ReadBE(Slice(buf, 35, 37))]

\* Msg::as_bytes: the HEAD_LEN bytes of the head, then the payload
MsgAsBytes(m) == Slice(HeadAsBytes(m.head), 0, HEAD_LEN) \o m.payload

\* Msg::from: the head is read from the buffer and everything behind the
\* head is the payload; &buf[HEAD_LEN..] panics on a shorter buffer as well
MsgFrom(buf) ==
    IF HeadFromPanics(buf) \/ HEAD_LEN > Len(buf)
    THEN [res |-> "panic"]
    ELSE [res |-> "ok",
          msg |-> [head |-> HeadFrom(buf),
                   payload |-> Slice(buf, HEAD_LEN, Len(buf))]]

\* the bytes payloads are made of, and the payloads that are encoded
PayloadBytes == {0, 255}
Payloads == UNION {[1..n -> PayloadBytes] : n \in 0..MaxPayload}

\* the heads that are encoded: the length field is whatever the caller wrote
\* into it (the fields of Head and Msg are public)
Heads ==
    [length : (0..MaxPayload) \cup {258},
     typ : AllTypes,
     sender : {0, 1234},
     receiver : {4321},
     timestamp : {0, 16909060},
     seq_num : {258},
     version : {1, 513}]

\* the messages that are encoded
Msgs == [head : Heads, payload : Payloads] \cup {DefaultMsg}

\* let bytes = msg.as_bytes(): the buffer is what the peer will read
McEncode ==
    /\ mc_pc = "idle"
    /\ mc_enc' = MsgAsBytes(mc_msg)
    /\ mc_buf' = MsgAsBytes(mc_msg)
    /\ mc_pc' = "encoded"
    /\ UNCHANGED <<mc_msg, mc_out, mc_i8, mc_typ, mc_back, mc_again>>
    /\ UNCHANGED <<rr_vars, cli_vars, rq_vars, aux_vars>>

\* where a read may stop short of the end of the frame
ShortReads(buf) ==
    {n \in {0, 2, HEAD_LEN - 1, HEAD_LEN, Len(buf) - 1} : n < Len(buf)}

\* the reader got only the first n bytes of the frame
McShortRead(n) ==
    /\ mc_pc = "encoded"
    /\ n \in ShortReads(mc_buf)
    /\ mc_buf' = SubSeq(mc_buf, 1, n)
    /\ mc_pc' = "read"
    /\ UNCHANGED <<mc_msg, mc_enc, mc_out, mc_i8, mc_typ, mc_back, mc_again>>
    /\ UNCHANGED <<rr_vars, cli_vars, rq_vars, aux_vars>>

\* the reader got the frame and the first byte of what follows it
McLongRead(b) ==
    /\ mc_pc = "encoded"
    /\ mc_buf' = Append(mc_buf, b)
    /\ mc_pc' = "read"
    /\ UNCHANGED <<mc_msg, mc_enc, mc_out, mc_i8, mc_typ, mc_back, mc_again>>
    /\ UNCHANGED <<rr_vars, cli_vars, rq_vars, aux_vars>>

\* let msg1 = Msg::from(buf)
McDecode ==
    /\ mc_pc \in {"encoded", "read"}
    /\ mc_out' = MsgFrom(mc_buf)
    /\ mc_pc' = "decoded"
    /\ UNCHANGED <<mc_msg, mc_enc, mc_buf, mc_i8, mc_typ, mc_back, mc_again>>
    /\ UNCHANGED <<rr_vars, cli_vars, rq_vars, aux_vars>>

MsgNext ==
    \/ McEncode
    \/ \E n \in 0..(HEAD_LEN + MaxPayload) : McShortRead(n)
    \/ \E b \in PayloadBytes : McLongRead(b)
    \/ McDecode

InitMsg ==
    RRParked /\ CliParked /\ RqParked /\ McStart(Msgs, {0}) /\ AuxParked

SpecMsg == InitMsg /\ [][MsgNext]_vars

\* Type::from_i8(value)
McFromI8 ==
    /\ mc_pc = "idle"
    /\ mc_typ' = FromI8(mc_i8)
    /\ mc_pc' = "typ"
    /\ UNCHANGED <<mc_msg, mc_enc, mc_buf, mc_out, mc_i8, mc_back, mc_again>>
    /\ UNCHANGED <<rr_vars, cli_vars, rq_vars, aux_vars>>

\* typ.value()
McValue ==
    /\ mc_pc = "typ"
    /\ mc_back' = TypeValue(mc_typ)
    /\ mc_pc' = "back"
    /\ UNCHANGED <<mc_msg, mc_enc, mc_buf, mc_out, mc_i8, mc_typ, mc_again>>
    /\ UNCHANGED <<rr_vars, cli_vars, rq_vars, aux_vars>>

\* Type::from_i8(typ.value())
McFromI8Again ==
    /\ mc_pc = "back"
    /\ mc_again' = FromI8(mc_back)
    /\ mc_pc' = "again"
    /\ UNCHANGED <<mc_msg, mc_enc, mc_buf, mc_out, mc_i8, mc_typ, mc_back>>
    /\ UNCHANGED <<rr_vars, cli_vars, rq_vars, aux_vars>>

TypeNext ==
    \/ McFromI8
    \/ McValue
    \/ McFromI8Again

InitType ==
    /\ RRParked /\ CliParked /\ RqParked
    /\ McStart({DefaultMsg}, I8)
    /\ AuxParked

SpecType == InitType /\ [][TypeNext]_vars

(***************************************************************************)
(* Properties of ClientReqwest (Part III)                                  *)
(***************************************************************************)

\* C21: for a ClientReqwest run with max_bi_streams = K, whatever calls are
\* made, one after the other or concurrently, at most K operators are
\* allocated: at most K multiplexer tasks are spawned, at most K operators
\* are in the set and at most K streams are asked for.
C21_OperatorsWithinBudget ==
    /\ Cardinality(Operators) <= rq_max_bi_streams
    /\ Cardinality(operator_set) <= rq_max_bi_streams
    /\ Cardinality({o \in Operators : op_stream[o] # "none"})
         <= rq_max_bi_streams

\* the calls that hold a request id of operator o
IdHolders(o) ==
    {c \in RqCalls : rq_pc[c] \in {"send", "panic_todo"} /\ rq_op[c] = o}

\* C22: request ids are unique per operator and monotonic: no two calls that
\* selected the same operator hold the same request id, however the calls
\* interleave, and the ids an operator hands out are 0, 1, 2, ... in the
\* order of the allocations; every id handed out is held by a call.
C22_RequestIdsUnique ==
    \A o \in Operators :
        /\ \A c, d \in IdHolders(o) : c # d => rq_id[c] # rq_id[d]
        /\ \A i \in DOMAIN op_handed[o] : op_handed[o][i] = i - 1
        /\ {rq_id[c] : c \in IdHolders(o)} = Range(op_handed[o])
        /\ op_req_id[o] = Len(op_handed[o])

\* C22 witness: two calls are inside call() at the same time, both selected
\* the same operator and both have done their fetch_add and not yet sent
C22_Witness ==
    \E c, d \in RqCalls :
        /\ c # d
        /\ rq_pc[c] = "send"
        /\ rq_pc[d] = "send"
        /\ rq_op[c] = rq_op[d]
        /\ rq_id[c] = 0
        /\ rq_id[d] = 1

\* C23: a call on a running client returns an awaitable handle, which
\* resolves once the operator routes the response frame with its req_id to
\* the call's one-shot sink: no call that submitted its request ends without
\* a handle, and no task drops a request it took or a frame of the peer.
C23_CallReturnsHandle ==
    /\ \A c \in RqCalls : rq_pc[c] # "panic_todo"
    /\ \A o \in Operators : op_taken[o] = <<>> /\ op_frames[o] = 0

\* what the multiplexer task of operator o can do
RqTaskStep(o) ==
    \/ RqTaskOpenOk(o)
    \/ RqTaskOpenErr(o)
    \/ RqTaskRecvReq(o)
    \/ RqTaskRecvClosed(o)
    \/ RqTaskRecvFrame(o)
    \/ RqTaskRecvErr(o)

\* C24: when the stream of an operator errors, the calls pending on it fail
\* with Closed, its multiplexer task terminates and the operator is removed
\* from the operator set: once the task of an operator whose stream errored
\* has nothing left to do, it has ended and the operator is out of the set.
C24_StreamErrorRemovesOperator ==
    \A o \in Operators :
        (op_stream[o] = "error" /\ ~ENABLED RqTaskStep(o))
            => (op_task[o] = "ended" /\ o \notin operator_set)

\* C25: a call that found the budget positive allocates a new operator and
\* submits its request on that operator; a call picks among the operators
\* that exist only when it found the budget exhausted.
C25_NewOperatorTakesRequest ==
    \A c \in RqCalls :
        rq_pc[c] \in {"add", "send", "panic_todo"}
            => IF rq_remain[c] > 0
               THEN rq_op[c] = rq_remain[c]
               ELSE rq_op[c] \in operator_set

\* C39: when no operator is available (call before run, or after run with
\* max_bi_streams = 0, so that the operator set is empty), call returns the
\* error "open operator error.": it does not panic, neither on the empty
\* set nor on the connection that is not there yet.
C39_EmptySetIsError ==
    \A c \in RqCalls : rq_pc[c] \notin {"panic_range", "panic_unwrap"}

(***************************************************************************)
(* Properties of the Msg codec (Part IV)                                   *)
(***************************************************************************)

\* C26: for every Msg m whose payload has at most 65535 bytes, decoding the
\* encoding gives m back: Msg::from(m.as_bytes()) has the length, typ,
\* sender, receiver, timestamp, seq_num and version of m and its payload.
C26_RoundTrip ==
    (mc_pc = "decoded" /\ mc_buf = mc_enc /\ Len(mc_msg.payload) <= 65535)
        => /\ mc_out.res = "ok"
           /\ mc_out.msg.head.length = mc_msg.head.length
           /\ mc_out.msg.head.typ = mc_msg.head.typ
           /\ mc_out.msg.head.sender = mc_msg.head.sender
           /\ mc_out.msg.head.receiver = mc_msg.head.receiver
           /\ mc_out.msg.head.timestamp = mc_msg.head.timestamp
           /\ mc_out.msg.head.seq_num = mc_msg.head.seq_num
           /\ mc_out.msg.head.version = mc_msg.head.version
           /\ mc_out.msg.payload = mc_msg.payload

\* C26 witness: an Auth message with fields of several bytes and a payload
\* of two bytes has been encoded and decoded, and the same message came out
C26_Witness ==
    /\ mc_pc = "decoded"
    /\ mc_buf = mc_enc
    /\ mc_msg.head.typ = "Auth"
    /\ mc_msg.head.length = 2
    /\ mc_msg.head.sender = 1234
    /\ mc_msg.head.timestamp = 16909060
    /\ mc_msg.head.version = 513
    /\ mc_msg.payload = <<0, 255>>
    /\ mc_out.res = "ok"
    /\ mc_out.msg = mc_msg

\* C27: Msg::as_bytes writes the head and then the payload, and what it
\* returns has exactly HEAD_LEN + m.head.length bytes, for every Msg m that
\* can be built.
C27_EncodedLength ==
    mc_pc # "idle"
        => /\ Slice(mc_enc, 0, HEAD_LEN) = HeadAsBytes(mc_msg.head)
           /\ Slice(mc_enc, HEAD_LEN, Len(mc_enc)) = mc_msg.payload
           /\ Len(mc_enc) = HEAD_LEN + mc_msg.head.length

\* the buffer stops before the end of the frame its head announces
EndsEarly(buf) ==
    \/ Len(buf) < HEAD_LEN
    \/ Len(buf) - HEAD_LEN < ReadBE(Slice(buf, 0, 2))

\* C28: decoding a buffer that ends early (fewer than the 37 bytes of the
\* head, or fewer payload bytes than the length field announces) gives a
\* Framing error value: it does not panic and it does not give a Msg.
C28_ShortInputIsFramingError ==
    (mc_pc = "decoded" /\ EndsEarly(mc_buf)) => mc_out.res = "framing_error"

\* C29: every Msg that Msg::from returns has a payload of exactly
\* head.length bytes, whatever the buffer was.
C29_PayloadHasHeadLength ==
    (mc_pc = "decoded" /\ mc_out.res = "ok")
        => Len(mc_out.msg.payload) = mc_out.msg.head.length

\* the variants of Type that carry a value, in the order of their values
TypeOrder == <<"Text", "Meme", "Image", "Video", "Audio", "File", "Ack",
               "Sync", "Offline", "Heartbeat", "Auth">>

\* C30: Type::from_i8 maps 1..=11 to Text, Meme, Image, Video, Audio, File,
\* Ack, Sync, Offline, Heartbeat, Auth in that order and every other i8 to
\* NA; Type::value is its inverse on the twelve variants, with 0 for NA:
\* from_i8(value(t)) = t.
C30_TypeMapping ==
    /\ mc_pc \in {"typ", "back", "again"}
         => mc_typ = IF mc_i8 \in 1..11 THEN TypeOrder[mc_i8] ELSE "NA"
    /\ mc_pc \in {"back", "again"}
         => IF mc_typ = "NA" THEN mc_back = 0
            ELSE mc_back \in 1..11 /\ TypeOrder[mc_back] = mc_typ
    /\ mc_pc = "again" => mc_again = mc_typ

\* C30 witness: 11 was converted to Auth, Auth to 11 and 11 to Auth again
C30_Witness ==
    /\ mc_pc = "again"
    /\ mc_i8 = 11
    /\ mc_typ = "Auth"
    /\ mc_back = 11
    /\ mc_again = "Auth"

(***************************************************************************)
(* Part V: ClientConfigBuilder                                             *)
(***************************************************************************)

\* the fields of the builder, in the order build() looks at them
BuilderFields == <<"remote_address", "ipv4_type", "domain", "cert",
                   "keep_alive_interval", "max_bi_streams">>

\* variant of WithField: a field that is set already keeps its value
WithField_KeepFirst(b, f, v) == IF b[f] = None THEN [b EXCEPT ![f] = v] ELSE b

\* with_remote_address ... with_max_bi_streams: self.f = Some(v)
WithField(b, f, v) == [b EXCEPT ![f] = v]

\* ClientConfigBuilder::build: each field in turn, ok_or_else(..)? returns
\* the error of the first field that is None
Build(b) ==
    IF b.remote_address = None THEN [res |-> "err", msg |-> "address"]
    ELSE IF b.ipv4_type = None THEN [res |-> "err", msg |-> "ipv4_type"]
    ELSE IF b.domain = None THEN [res |-> "err", msg |-> "domain"]
    ELSE IF b.cert = None THEN [res |-> "err", msg |-> "cert"]
    ELSE IF b.keep_alive_interval = None
    THEN [res |-> "err", msg |-> "keep_alive_interval"]
    ELSE IF b.max_bi_streams = None
    THEN [res |-> "err", msg |-> "max_bi_streams"]
    ELSE [res |-> "ok",
          config |-> [remote_address |-> b.remote_address,
                      ipv4_type |-> b.ipv4_type,
                      domain |-> b.domain,
                      cert |-> b.cert,
                      keep_alive_interval |-> b.keep_alive_interval,
                      max_bi_streams |-> b.max_bi_streams]]

\* builder.with_f(v)
CbWith(f, v) ==
    /\ cb_pc = "open"
    /\ builder' = WithField(builder, f, v)
    /\ cb_last' = [cb_last EXCEPT ![f] = v]
    /\ UNCHANGED <<cb_pc, cb_out>>
    /\ UNCHANGED <<rr_vars, cli_vars, rq_vars, mc_vars, ep_vars, cm_vars>>

\* builder.build(): the builder is consumed
CbBuild ==
    /\ cb_pc = "open"
    /\ cb_out' = Build(builder)
    /\ cb_pc' = "built"
    /\ UNCHANGED <<builder, cb_last>>
    /\ UNCHANGED <<rr_vars, cli_vars, rq_vars, mc_vars, ep_vars, cm_vars>>

CbNext ==
    \/ \E f \in Range(BuilderFields), v \in 1..NValues : CbWith(f, v)
    \/ CbBuild

InitCb == RRParked /\ CliParked /\ RqParked /\ McParked /\ AuxParked

SpecCb == InitCb /\ [][CbNext]_vars

(***************************************************************************)
(* Properties of ClientConfigBuilder (Part V)                              *)
(***************************************************************************)

\* the name build() gives each field in its error message
ErrorNames == <<"address", "ipv4_type", "domain", "cert",
                "keep_alive_interval", "max_bi_streams">>

\* the positions of the fields no setter was called for
Unset == {i \in 1..6 : cb_last[BuilderFields[i]] = None}

\* C31: build() returns an error if and only if at least one of the six
\* fields is unset; the error names the first unset field in the order
\* address, ipv4_type, domain, cert, keep_alive_interval, max_bi_streams;
\* when all six are set it returns a ClientConfig that holds the last value
\* passed to each with_* setter.
C31_BuildChecksFields ==
    cb_pc = "built"
        => /\ cb_out.res = "err" <=> Unset # {}
           /\ cb_out.res = "err"
                => \E i \in Unset : /\ \A j \in Unset : i <= j
                                    /\ cb_out.msg = ErrorNames[i]
           /\ cb_out.res = "ok"
                => \A i \in 1..6 :
                     cb_out.config[BuilderFields[i]] = cb_last[BuilderFields[i]]

\* C31 witness: every setter was called, with different values, and build()
\* returned a config that holds the values the setters were called with last
C31_Witness ==
    /\ cb_pc = "built"
    /\ cb_out.res = "ok"
    /\ cb_last.domain = 1
    /\ cb_last.cert = NValues
    /\ cb_out.config.domain = 1
    /\ cb_out.config.cert = NValues

(***************************************************************************)
(* Part VI: Drop of the clients that own a QUIC endpoint                   *)
(*                                                                         *)
(* One client of each kind is created, run and dropped.  A                 *)
(* ClientMultiConnection creates its endpoint in new(); the others keep    *)
(* None in self.endpoint until run() has connected.                        *)
(***************************************************************************)

\* the reason each Drop hands to endpoint.close
CloseReason(k) ==
    IF k = "ClientReqResp" THEN "work has done."
    ELSE "it's time to say goodbye."

\* variant of DropCloses: the endpoint is closed whether it exists or not
DropCloses_Always(k, ep) == <<[code |-> 0, reason |-> CloseReason(k)]>>

\* Drop::drop: endpoint.close(0u32.into(), reason) if the endpoint exists
DropCloses(k, ep) ==
    IF ep THEN <<[code |-> 0, reason |-> CloseReason(k)]>> ELSE <<>>

\* run() returned Ok: self.endpoint = Some(endpoint)
EpRun(k) ==
    /\ k \in EpOptional
    /\ ep_pc[k] = "new"
    /\ endpoint' = [endpoint EXCEPT ![k] = TRUE]
    /\ ep_pc' = [ep_pc EXCEPT ![k] = "running"]
    /\ UNCHANGED closes
    /\ UNCHANGED <<rr_vars, cli_vars, rq_vars, mc_vars, cb_vars, cm_vars>>

\* run() returned an error (certificate, socket or connect): the local
\* endpoint, if it was created, goes away with the frame of run
EpRunErr(k) ==
    /\ k \in EpOptional
    /\ ep_pc[k] = "new"
    /\ ep_pc' = [ep_pc EXCEPT ![k] = "failed"]
    /\ UNCHANGED <<endpoint, closes>>
    /\ UNCHANGED <<rr_vars, cli_vars, rq_vars, mc_vars, cb_vars, cm_vars>>

\* the client is dropped; ClientReqResp takes the endpoint out of its field
EpDrop(k) ==
    /\ ep_pc[k] \notin EpDropped
    /\ closes' = [closes EXCEPT ![k] = @ \o DropCloses(k, endpoint[k])]
    /\ endpoint' = [endpoint EXCEPT
                      ![k] = IF k = "ClientReqResp" THEN FALSE ELSE @]
    /\ ep_pc' = [ep_pc EXCEPT
                   ![k] = IF endpoint[k] THEN "dropped" ELSE "dropped_new"]
    /\ UNCHANGED <<rr_vars, cli_vars, rq_vars, mc_vars, cb_vars, cm_vars>>

EpNext ==
    \/ \E k \in EpOwners : EpRun(k)
    \/ \E k \in EpOwners : EpRunErr(k)
    \/ \E k \in EpOwners : EpDrop(k)

InitEp ==
    /\ RRParked /\ CliParked /\ RqParked /\ McParked
    /\ CbDefault /\ EpNew /\ CmNew

SpecEp == InitEp /\ [][EpNext]_vars

(***************************************************************************)
(* Properties of Drop (Part VI)                                            *)
(***************************************************************************)

\* C32: dropping a Client, ClientTimeout or ClientMultiConnection whose
\* endpoint exists closes the endpoint exactly once with code 0 and reason
\* "it's time to say goodbye."; dropping a ClientReqResp that ran closes its
\* endpoint with code 0 and reason "work has done."; a client dropped before
\* run() created an endpoint issues no close, and nothing is closed before
\* the drop.
C32_DropClosesEndpointOnce ==
    \A k \in EpOwners :
        /\ ep_pc[k] = "dropped"
             => closes[k] =
                  <<[code |-> 0,
                     reason |-> IF k = "ClientReqResp"
                                THEN "work has done."
                                ELSE "it's time to say goodbye."]>>
        /\ ep_pc[k] # "dropped" => closes[k] = <<>>

\* C32 witness: the ClientReqResp was run and dropped and closed its
\* endpoint, while the Client was dropped before run and closed nothing
C32_Witness ==
    /\ ep_pc["ClientReqResp"] = "dropped"
    /\ Len(closes["ClientReqResp"]) = 1
    /\ ep_pc["Client"] = "dropped_new"
    /\ closes["Client"] = <<>>
    /\ ep_pc["ClientMultiConnection"] = "dropped"

(***************************************************************************)
(* Part VII: cluster wiring (server/message/src/cluster/client.rs)         *)
(*                                                                         *)
(* Client::new_connection is async on &self: several calls may be in       *)
(* flight.  A sender is known by the call that created its sub-connection. *)
(* new_timeout_connection is awaited once; what follows it in the function *)
(* has no await and is one step.                                           *)
(***************************************************************************)

\* variant of InsertSender: the entry is keyed by the number of the call
InsertSender_ByCall(m, id, c) == (c :> c) @@ m

\* cluster_map.insert(res_server_info.id, MsgSender::Client(sender.clone())):
\* an entry under the same id is replaced
InsertSender(m, id, c) == (id :> c) @@ m

\* new_connection is called and awaits new_timeout_connection
CmStart(c) ==
    /\ cm_pc[c] = "idle"
    /\ cm_pc' = [cm_pc EXCEPT ![c] = "connecting"]
    /\ UNCHANGED <<cluster_map, cm_peer, cm_handlers>>
    /\ UNCHANGED <<rr_vars, cli_vars, rq_vars, mc_vars, cb_vars, ep_vars>>

\* new_timeout_connection returned Ok((conn, auth_resp)): the ServerInfo of
\* the reply is parsed, the sender is inserted under its id and the handler
\* task is spawned
CmConnected(c, id) ==
    /\ cm_pc[c] = "connecting"
    /\ cm_peer' = [cm_peer EXCEPT ![c] = id]
    /\ cluster_map' = InsertSender(cluster_map, id, c)
    /\ cm_handlers' = cm_handlers \cup {c}
    /\ cm_pc' = [cm_pc EXCEPT ![c] = "handling"]
    /\ UNCHANGED <<rr_vars, cli_vars, rq_vars, mc_vars, cb_vars, ep_vars>>

\* new_timeout_connection returned Err (connect, open_bi or auth failed):
\* `?` returns the error
CmFailed(c) ==
    /\ cm_pc[c] = "connecting"
    /\ cm_pc' = [cm_pc EXCEPT ![c] = "failed"]
    /\ UNCHANGED <<cluster_map, cm_peer, cm_handlers>>
    /\ UNCHANGED <<rr_vars, cli_vars, rq_vars, mc_vars, cb_vars, ep_vars>>

\* handler_func returned (connection closed or erred): an error is logged,
\* _conn is dropped and the task ends
CmHandlerReturns(c) ==
    /\ cm_pc[c] = "handling"
    /\ cm_pc' = [cm_pc EXCEPT ![c] = "returned"]
    /\ UNCHANGED <<cluster_map, cm_peer, cm_handlers>>
    /\ UNCHANGED <<rr_vars, cli_vars, rq_vars, mc_vars, cb_vars, ep_vars>>

CmNext ==
    \/ \E c \in CmCalls : CmStart(c)
    \/ \E c \in CmCalls, id \in PeerIds : CmConnected(c, id)
    \/ \E c \in CmCalls : CmFailed(c)
    \/ \E c \in CmCalls : CmHandlerReturns(c)

InitCm ==
    /\ RRParked /\ CliParked /\ RqParked /\ McParked
    /\ CbDefault /\ EpNew /\ CmNew

SpecCm == InitCm /\ [][CmNext]_vars

(***************************************************************************)
(* Properties of the cluster wiring (Part VII)                             *)
(***************************************************************************)

\* call c has just got its connection and the reply of the peer id
ConnectSucceeds(c, id) ==
    /\ cm_pc[c] = "connecting"
    /\ cm_pc'[c] = "handling"
    /\ cm_peer'[c] = id

\* C33: the cluster connection map is populated only on successful auth: an
\* entry appears or changes only in the step in which a new_connection got
\* its timeout connection and the peer's Auth reply, the entry is keyed by
\* the id of the replying ServerInfo and holds the sender of that
\* connection, and a handler task is spawned only in such a step; a call
\* whose connecting or authenticating fails leaves the map as it is and
\* spawns no handler task.
C33_MapPopulatedOnAuth ==
    [][/\ \A id \in DOMAIN cluster_map' :
            (id \notin DOMAIN cluster_map \/ cluster_map'[id] # cluster_map[id])
                => ConnectSucceeds(cluster_map'[id], id)
       /\ \A c \in cm_handlers' \ cm_handlers :
            \E id \in PeerIds : ConnectSucceeds(c, id) /\ cluster_map'[id] = c
       /\ \A c \in CmCalls :
            (cm_pc[c] = "connecting" /\ cm_pc'[c] = "failed")
                => UNCHANGED <<cluster_map, cm_handlers>>]_vars

\* C33 witness: one call failed and has neither an entry nor a handler,
\* another call connected to peer 2 and its sender is the entry of peer 2
C33_Witness ==
    \E c, d \in CmCalls :
        /\ cm_pc[c] = "failed"
        /\ c \notin cm_handlers
        /\ cm_pc[d] = "handling"
        /\ cm_peer[d] = 2
        /\ d \in cm_handlers
        /\ 2 \in DOMAIN cluster_map
        /\ cluster_map[2] = d

\* C34: every entry new_connection inserted is removed when the handler
\* task of that connection returns: once the handler has returned, the map
\* does not map any id to the sender of the dead connection.
C34_EntryRemovedOnReturn ==
    \A c \in CmCalls :
        cm_pc[c] = "returned"
            => \A id \in DOMAIN cluster_map : cluster_map[id] # c

=============================================================================
